---- MODULE Spec2Model ----
(***************************************************************************)
(* The client transport of core-sdk: HttpClient.request, with its          *)
(* credential resolution and error normalisation, and the SdkResponse      *)
(* helpers ok / fail / trySdk.                                             *)
(*                                                                         *)
(* JavaScript values are tagged records, so that null, undefined, strings, *)
(* numbers and objects can be told apart and compared:                     *)
(*   Null, Undefined, S("text"), N(404), Obj([k |-> v]), Err("message")    *)
(* An object keeps its own properties in the function f; inst tells        *)
(* whether `x instanceof Error` holds.                                     *)
(*                                                                         *)
(* The environment is the one the code is written against: a caller-       *)
(* supplied getAuthToken callback (any function: it may return any string, *)
(* or throw any value), the optional jsonwebtoken module (it may be        *)
(* missing, and sign may throw), and the Fetch-standard fetch(): it        *)
(* rejects with an Error instance, or resolves to a Response of any status *)
(* and any body; a 204 or 304 Response has no body; Response.json()        *)
(* rejects with a SyntaxError on an empty or malformed body.               *)
(***************************************************************************)
EXTENDS Integers, Sequences, FiniteSets, TLC

\* Number of invocation slots (callers that may hold an invocation).
NumReq == 2

Reqs == 1..NumReq

----------------------------------------------------------------------------
\* JavaScript values

Null == [t |-> "null"]
Undefined == [t |-> "undefined"]
Fn == [t |-> "function"]
S(s) == [t |-> "string", v |-> s]
N(n) == [t |-> "number", v |-> n]
Obj(fields) == [t |-> "object", inst |-> "Object", f |-> fields]
Err(msg) == [t |-> "object", inst |-> "Error", f |-> [message |-> S(msg)]]

\* `if (v)`, `v ? a : b`
Truthy(v) ==
  CASE v.t = "null" -> FALSE
    [] v.t = "undefined" -> FALSE
    [] v.t = "string" -> v.v # ""
    [] v.t = "number" -> v.v # 0
    [] OTHER -> TRUE

\* `v == null`: the test behind `??` and `?.`
Nullish(v) == v.t \in {"null", "undefined"}

\* `o.k` on a value that is not null or undefined (undefined when o has no k)
Get(o, k) ==
  IF o.t = "object" /\ k \in DOMAIN o.f THEN o.f[k] ELSE Undefined

\* `a ?? b`
Coalesce(a, b) == IF Nullish(a) THEN b ELSE a

\* `err instanceof Error`
InstanceOfError(v) == v.t = "object" /\ v.inst = "Error"

\* `err instanceof Error ? err.message : 'Unknown error'`
messageOf(err) ==
  IF InstanceOfError(err) THEN Get(err, "message") ELSE S("Unknown error")

----------------------------------------------------------------------------
\* The environment's values

BaseUrls == {<<"https://api.example.com">>, <<"https://api.example.com", "/">>}

\* HttpClientConfig: neither strategy, the callback, the service token
\* (a usable secret or an empty one), or both at once.
AuthConfig(secret) == Obj([serviceToken |-> S(secret)])

Configs ==
  { [baseUrl |-> b, getAuthToken |-> g, auth |-> a] :
      b \in BaseUrls,
      g \in {Undefined, Fn},
      a \in {Undefined, AuthConfig("secret"), AuthConfig("")} }

UserIds == {"", "u1", "u2"}
Methods == {"GET", "POST"}
Paths == {<<"/", "api/svc/v1/memories">>}
Payload == Obj([content |-> S("hello")])

\* RequestOptions, or no options at all
OptionsSet ==
  {Undefined} \cup
  { Obj([userId |-> S(u), body |-> b]) : u \in UserIds, b \in {Undefined, Payload} }

\* What a caller-supplied callback can throw: an Error or any other value
CallbackThrows == {Err("token service down"), S("denied")}
\* What import('jsonwebtoken') and jwt.sign throw
ImportThrows == {Err("Cannot find module 'jsonwebtoken'")}
SignThrows == {Err("secretOrPrivateKey must have a value")}
\* What fetch() rejects with (a TypeError, per the Fetch standard)
FetchThrows == {Err("fetch failed"), Err("getaddrinfo ENOTFOUND api.example.com")}

Statuses == {200, 201, 204, 304, 400, 401, 403, 404, 409, 429, 500, 503}
NullBodyStatuses == {204, 304}

NoBody == [kind |-> "empty"]
Malformed == [kind |-> "malformed"]
Json(v) == [kind |-> "json", value |-> v]

JsonValues ==
  { Null,
    S("plain text"),
    Obj(<<>>),
    Obj([id |-> S("w2"), name |-> S("Gadget")]),
    Obj([code |-> S("not_found"), message |-> S("Widget w1 not found")]),
    Obj([code |-> Null, message |-> Null]),
    Obj([code |-> S("")]),
    Obj([code |-> S("quota"), status |-> N(999),
         context |-> Obj([field |-> S("name")])]) }

Bodies == {NoBody, Malformed} \cup { Json(v) : v \in JsonValues }

ReasonPhrase(status) ==
  CASE status = 200 -> "OK"
    [] status = 201 -> "Created"
    [] status = 204 -> "No Content"
    [] status = 304 -> "Not Modified"
    [] status = 400 -> "Bad Request"
    [] status = 401 -> "Unauthorized"
    [] status = 403 -> "Forbidden"
    [] status = 404 -> "Not Found"
    [] status = 409 -> "Conflict"
    [] status = 429 -> "Too Many Requests"
    [] status = 500 -> "Internal Server Error"
    [] OTHER -> "Service Unavailable"

Response(st, b) == [status |-> st, statusText |-> ReasonPhrase(st), body |-> b]

Responses ==
  { Response(st, b) : st \in Statuses \ NullBodyStatuses, b \in Bodies } \cup
  { Response(st, NoBody) : st \in NullBodyStatuses }

\* Response.ok
resOk(res) == res.status >= 200 /\ res.status <= 299

\* What `await res.json()` gives: the parsed value, or a thrown SyntaxError
Returned(v) == [kind |-> "returned", value |-> v]
Raised(e) == [kind |-> "raised", value |-> e]

json(res) ==
  CASE res.body.kind = "empty" -> Raised(Err("Unexpected end of JSON input"))
    [] res.body.kind = "malformed" -> Raised(Err("Unexpected token < in JSON"))
    [] OTHER -> Returned(res.body.value)

----------------------------------------------------------------------------
\* HttpClient: the pure parts

\* config.baseUrl.replace(/\/$/, '')
stripTrailingSlash(url) ==
  IF Len(url) > 0 /\ url[Len(url)] = "/" THEN SubSeq(url, 1, Len(url) - 1) ELSE url

\* constructor(config)
HttpClient(cfg) == [baseUrl |-> stripTrailingSlash(cfg.baseUrl), config |-> cfg]

\* `options?.k`
OptGet(options, k) == IF Nullish(options) THEN Undefined ELSE Get(options, k)

\* buildUrl(path, params): new URL(path, this.baseUrl), then searchParams.set
\* for every entry of params. An absolute path replaces the base's path; a
\* relative one replaces what follows the base path's last "/".
buildUrl(baseUrl, path, params) ==
  LET basePath == Tail(baseUrl)
      slashes == { k \in 1..Len(basePath) : basePath[k] = "/" }
      dir == IF slashes = {} THEN <<"/">>
             ELSE SubSeq(basePath, 1, CHOOSE k \in slashes : \A j \in slashes : j <= k)
  IN  [ origin |-> Head(baseUrl),
        pathname |-> IF path # <<>> /\ Head(path) = "/" THEN path ELSE dir \o path,
        search |-> IF Nullish(params) THEN <<>> ELSE params.f ]

\* The headers literal: Content-Type, then the spread of options?.headers
initialHeaders(options) ==
  LET extra == OptGet(options, "headers")
      base == ("Content-Type" :> S("application/json"))
  IN  IF extra.t = "object" THEN extra.f @@ base ELSE base

\* `Bearer ${token}`
bearer(token) == S("Bearer " \o token.v)

\* An Authorization header set whatever the token, an empty one included
withAuthorization_always(hdrs, token) ==
  IF Truthy(token)
    THEN ("Authorization" :> bearer(token)) @@ hdrs
    ELSE ("Authorization" :> S("Bearer ")) @@ hdrs

\* if (token) headers['Authorization'] = `Bearer ${token}`
withAuthorization(hdrs, token) ==
  IF Truthy(token)
    THEN ("Authorization" :> bearer(token)) @@ hdrs
    ELSE hdrs

\* JSON.stringify(value): the text that parses back to value
stringify(value) == [t |-> "string", json |-> value]

\* The argument list of the fetch call
fetchInit(url, method, hdrs, options) ==
  [ url |-> url, method |-> method, headers |-> hdrs,
    body |-> IF Truthy(OptGet(options, "body"))
               THEN stringify(OptGet(options, "body"))
               ELSE Undefined ]

\* jwt.default.sign({ sub: userId }, serviceToken, { issuer, audience, expiresIn })
sign(userId, auth) ==
  LET opts == Get(auth, "jwtOptions")
  IN  S("jwt:" \o userId.v \o ":" \o Get(auth, "serviceToken").v
          \o ":" \o Coalesce(OptGet(opts, "issuer"), S("sdk")).v
          \o ":" \o Coalesce(OptGet(opts, "audience"), S("api")).v
          \o ":" \o Coalesce(OptGet(opts, "expiresIn"), S("5m")).v)

\* statusToCode with the 429 entry left out of the table
statusToCode_no429(status) ==
  CASE status = 400 -> "validation"
    [] status = 401 -> "unauthorized"
    [] status = 403 -> "forbidden"
    [] status = 404 -> "not_found"
    [] status = 409 -> "conflict"
    [] status = 500 -> "internal"
    [] OTHER -> "unknown"

\* statusToCode(status)
statusToCode(status) ==
  CASE status = 400 -> "validation"
    [] status = 401 -> "unauthorized"
    [] status = 403 -> "forbidden"
    [] status = 404 -> "not_found"
    [] status = 409 -> "conflict"
    [] status = 429 -> "rate_limited"
    [] status = 500 -> "internal"
    [] OTHER -> "unknown"

\* parseError taking the status from the body when the body has one
parseError_bodyStatus(res) ==
  LET parsed == json(res)
      body == parsed.value
  IN  IF parsed.kind = "raised" \/ Nullish(body)
        THEN Obj([ code |-> S(statusToCode(res.status)),
                   message |-> S(res.statusText),
                   status |-> N(res.status) ])
        ELSE Obj([ code |-> Coalesce(Get(body, "code"), S(statusToCode(res.status))),
                   message |-> Coalesce(Get(body, "message"), S(res.statusText)),
                   status |-> Coalesce(Get(body, "status"), N(res.status)),
                   context |-> Get(body, "context") ])

\* parseError(res): the try branch reads the body's fields, and a body that
\* does not parse, or is null (reading null.code throws), takes the catch branch.
parseError(res) ==
  LET parsed == json(res)
      body == parsed.value
  IN  IF parsed.kind = "raised" \/ Nullish(body)
        THEN Obj([ code |-> S(statusToCode(res.status)),
                   message |-> S(res.statusText),
                   status |-> N(res.status) ])
        ELSE Obj([ code |-> Coalesce(Get(body, "code"), S(statusToCode(res.status))),
                   message |-> Coalesce(Get(body, "message"), S(res.statusText)),
                   status |-> N(res.status),
                   context |-> Get(body, "context") ])

\* The failure literal with the error copied into data as well
errorResponse_bothSet(error) == [data |-> error, error |-> error]

\* { data: null, error }
errorResponse(error) == [data |-> Null, error |-> error]

\* The success literal with the parsed body dropped
dataResponse_dropped(data) == [data |-> Null, error |-> Null]

\* { data: data as T, error: null }
dataResponse(data) == [data |-> data, error |-> Null]

\* The catch block with a fixed message instead of err.message
networkError_fixedMessage(err) ==
  errorResponse(Obj([ code |-> S("network_error"),
                      message |-> S("Unknown error"),
                      status |-> N(0) ]))

\* The catch block of request
networkError(err) ==
  errorResponse(Obj([ code |-> S("network_error"),
                      message |-> messageOf(err),
                      status |-> N(0) ]))

----------------------------------------------------------------------------
\* SdkResponse helpers

\* ok(data): throwOnError() returns data
ok(data) ==
  [data |-> data, error |-> Null, throwOnError |-> Returned(data)]

\* A fail whose throwOnError() returns null instead of throwing
fail_returnsNull(error) ==
  [data |-> Null, error |-> error, throwOnError |-> Returned(Null)]

\* fail(error): throwOnError() throws error
fail(error) ==
  [data |-> Null, error |-> error, throwOnError |-> Raised(error)]

\* isRememberError(err)
isRememberError(err) ==
  /\ err.t = "object"
  /\ "code" \in DOMAIN err.f
  /\ "status" \in DOMAIN err.f
  /\ "message" \in DOMAIN err.f

\* A trySdk that wraps whatever fn throws, a RememberError included
trySdk_wrapsAll(settled, fallbackCode) ==
  IF settled.kind = "returned"
    THEN ok(settled.value)
    ELSE fail(Obj([ code |-> S(fallbackCode),
                    message |-> messageOf(settled.value),
                    status |-> N(500) ]))

\* trySdk(fn, fallbackCode), given how `await fn()` ended
trySdk(settled, fallbackCode) ==
  IF settled.kind = "returned"
    THEN ok(settled.value)
    ELSE IF isRememberError(settled.value)
           THEN fail(settled.value)
           ELSE fail(Obj([ code |-> S(fallbackCode),
                           message |-> messageOf(settled.value),
                           status |-> N(500) ]))

----------------------------------------------------------------------------
\* More of the environment: what callers pass and what callbacks do

\* What getAuthToken(userId) returns: a token for that user, or an empty string
CallbackTokens(userId) == {S("tok-" \o userId.v), S("")}

\* Arguments of ok(data) and fail(error)
OkData == {Null, Undefined, Payload}
RememberErrors ==
  { Obj([code |-> S("not_found"), message |-> S("no such memory"), status |-> N(404)]) }

\* How the fn passed to trySdk ends: it resolves, or throws an Error, a
\* RememberError, an Error that carries code and status, a string, or null
FnSettles ==
  { Returned(v) : v \in {Undefined, Payload} } \cup
  { Raised(e) : e \in RememberErrors \cup
      { Err("boom"), S("oops"), Null,
        [t |-> "object", inst |-> "Error",
         f |-> [message |-> S("denied"), code |-> S("forbidden"), status |-> N(403)]] } }

FallbackCodes == {"internal", "db_error"}

----------------------------------------------------------------------------
\* State

VARIABLES
  client,       \* the HttpClient instance: its baseUrl and config fields
  jwtLoaded,    \* whether import('jsonwebtoken') has been evaluated
  pc,           \* where each invocation stands
  call,         \* the operation each slot runs, with its arguments
  headers,      \* request's local `headers`
  auth,         \* credential resolution of the invocation:
                \*   "none", "pending", "resolved" or "failed"
  fetchCalls,   \* the fetch calls the invocation has made, in order
  fetchResult,  \* how the invocation's fetch promise settled
  result,       \* how the invocation ended: Returned(value) or Raised(error)
  window,       \* the global `window`: undefined on a server
  made,         \* how the last call of a client factory ended
  app,          \* the resource or compound method each slot runs, if any
  conv,         \* a call of toTaskError or of the API response transformers:
                \*   its argument and what it gave
  store,        \* Firestore: the stored task document
  worker,       \* the TaskDatabaseService operation each caller runs
  fbClient,     \* the FirebaseClient instance: its app, db and config fields
  fbApps,       \* firebase-admin: the names of the initialized apps (getApps())
  serviceDb,    \* TaskDatabaseService.db
  fbCall        \* the FirebaseClient method that is running, and how it ended

vars ==
  <<client, jwtLoaded, pc, call, headers, auth, fetchCalls, fetchResult, result,
    window, made, app, conv, store, worker, fbClient, fbApps, serviceDb, fbCall>>

\* The variables of the HTTP client and of its tiers
httpVars ==
  <<client, jwtLoaded, pc, call, headers, auth, fetchCalls, fetchResult, result,
    window, made, app>>

\* The variables of the task service: the error and response converters,
\* TaskDatabaseService and FirebaseClient
taskVars == <<conv, store, worker, fbClient, fbApps, serviceDb, fbCall>>

\* The task service is not loaded
Unloaded == [loaded |-> FALSE]
TaskServiceUnloaded ==
  /\ conv = Unloaded
  /\ store = Unloaded
  /\ worker = Unloaded
  /\ fbClient = Unloaded
  /\ fbApps = Unloaded
  /\ serviceDb = Unloaded
  /\ fbCall = Unloaded

\* The variables of the client factories and of the two client tiers
tierVars == <<window, made, app>>

NoCall == [op |-> "none"]
Pending == [kind |-> "pending"]
NoHeaders == <<>>
NoApp == [op |-> "none"]

\* A server process that constructed its HttpClient directly
Init ==
  /\ TaskServiceUnloaded
  /\ \E cfg \in Configs : client = HttpClient(cfg)
  /\ window = Undefined
  /\ made = Pending
  /\ app = [i \in Reqs |-> NoApp]
  /\ jwtLoaded = FALSE
  /\ pc = [i \in Reqs |-> "idle"]
  /\ call = [i \in Reqs |-> NoCall]
  /\ headers = [i \in Reqs |-> NoHeaders]
  /\ auth = [i \in Reqs |-> "none"]
  /\ fetchCalls = [i \in Reqs |-> <<>>]
  /\ fetchResult = [i \in Reqs |-> Pending]
  /\ result = [i \in Reqs |-> Pending]

----------------------------------------------------------------------------
\* HttpClient.request

\* A resolveToken that tries the service token before the callback
resolveTokenStart_serviceFirst(cfg) ==
  IF Truthy(OptGet(cfg.auth, "serviceToken")) THEN "import"
  ELSE IF Truthy(cfg.getAuthToken) THEN "getAuthToken"
  ELSE "noToken"

\* Where resolveToken(userId) first waits: on the callback, on the import of
\* jsonwebtoken, or on nothing (it returns null)
resolveTokenStart(cfg) ==
  IF Truthy(cfg.getAuthToken) THEN "getAuthToken"
  ELSE IF Truthy(OptGet(cfg.auth, "serviceToken")) THEN "import"
  ELSE "noToken"

\* request(method, path, options), up to its first await: the URL and the
\* headers are built, then either resolveToken is awaited or fetch is called.
request(i, method, path, options) ==
  LET url == buildUrl(client.baseUrl, path, OptGet(options, "params"))
      hdrs == initialHeaders(options)
  IN  /\ pc[i] = "idle"
      /\ call' = [call EXCEPT ![i] =
           [op |-> "request", method |-> method, path |-> path,
            options |-> options, url |-> url, token |-> Pending]]
      /\ headers' = [headers EXCEPT ![i] = hdrs]
      /\ IF Truthy(OptGet(options, "userId"))
           THEN /\ auth' = [auth EXCEPT ![i] = "pending"]
                /\ pc' = [pc EXCEPT ![i] = resolveTokenStart(client.config)]
                /\ UNCHANGED fetchCalls
           ELSE /\ fetchCalls' = [fetchCalls EXCEPT ![i] =
                     Append(@, fetchInit(url, method, hdrs, options))]
                /\ pc' = [pc EXCEPT ![i] = "fetch"]
                /\ UNCHANGED auth
      /\ UNCHANGED <<client, jwtLoaded, fetchResult, result>>

\* A request whose `headers` is a field of the client, shared by the
\* invocations in progress, instead of a local of the invocation
tokenResolved_shared(i, token) ==
  LET hdrs == withAuthorization(headers[i], token)
  IN  /\ headers' = [j \in Reqs |->
           IF pc[j] = "idle" THEN headers[j] ELSE withAuthorization(headers[j], token)]
      /\ auth' = [auth EXCEPT ![i] = "resolved"]
      /\ fetchCalls' = [fetchCalls EXCEPT ![i] =
           Append(@, fetchInit(call[i].url, call[i].method, hdrs, call[i].options))]
      /\ pc' = [pc EXCEPT ![i] = "fetch"]
      /\ call' = [call EXCEPT ![i].token = token]
      /\ UNCHANGED <<client, fetchResult, result>>

\* `await this.resolveToken(...)` gives a token: the header is set when the
\* token is truthy, and fetch is called.
tokenResolved(i, token) ==
  LET hdrs == withAuthorization(headers[i], token)
  IN  /\ headers' = [headers EXCEPT ![i] = hdrs]
      /\ auth' = [auth EXCEPT ![i] = "resolved"]
      /\ fetchCalls' = [fetchCalls EXCEPT ![i] =
           Append(@, fetchInit(call[i].url, call[i].method, hdrs, call[i].options))]
      /\ pc' = [pc EXCEPT ![i] = "fetch"]
      /\ call' = [call EXCEPT ![i].token = token]
      /\ UNCHANGED <<client, fetchResult, result>>

\* A failed resolution swallowed: the request goes on to fetch without a
\* credential
tokenRejected_swallowed(i, err) ==
  /\ auth' = [auth EXCEPT ![i] = "failed"]
  /\ fetchCalls' = [fetchCalls EXCEPT ![i] =
       Append(@, fetchInit(call[i].url, call[i].method, headers[i], call[i].options))]
  /\ pc' = [pc EXCEPT ![i] = "fetch"]
  /\ UNCHANGED <<client, call, headers, fetchResult, result>>

\* `await this.resolveToken(...)` throws: the await stands outside the try
\* block, so the promise request returned is rejected with the thrown value.
tokenRejected(i, err) ==
  /\ auth' = [auth EXCEPT ![i] = "failed"]
  /\ result' = [result EXCEPT ![i] = Raised(err)]
  /\ pc' = [pc EXCEPT ![i] = "done"]
  /\ UNCHANGED <<client, call, headers, fetchCalls, fetchResult>>

\* resolveToken: return this.config.getAuthToken(userId)
getAuthTokenReturns(i) ==
  /\ pc[i] = "getAuthToken"
  /\ \E token \in CallbackTokens(Get(call[i].options, "userId")) :
       tokenResolved(i, token)
  /\ UNCHANGED jwtLoaded

getAuthTokenThrows(i, err) ==
  /\ pc[i] = "getAuthToken"
  /\ tokenRejected(i, err)
  /\ UNCHANGED jwtLoaded

\* resolveToken: await import('jsonwebtoken') fails (the peer dependency is optional)
importFails(i, err) ==
  /\ pc[i] = "import"
  /\ tokenRejected(i, err)
  /\ UNCHANGED jwtLoaded

\* resolveToken: the import succeeds and jwt.default.sign returns the token
signReturns(i) ==
  /\ pc[i] = "import"
  /\ jwtLoaded' = TRUE
  /\ tokenResolved(i, sign(Get(call[i].options, "userId"), client.config.auth))

\* resolveToken: the import succeeds and jwt.default.sign throws
signThrows(i, err) ==
  /\ pc[i] = "import"
  /\ jwtLoaded' = TRUE
  /\ tokenRejected(i, err)

\* A resolveToken that rejects when neither strategy is configured
noStrategy_rejects(i) ==
  /\ pc[i] = "noToken"
  /\ tokenRejected(i, Err("No credential strategy configured"))
  /\ UNCHANGED jwtLoaded

\* resolveToken: neither strategy is configured, return null
noStrategy(i) ==
  /\ pc[i] = "noToken"
  /\ tokenResolved(i, Null)
  /\ UNCHANGED jwtLoaded

\* A catch block that, besides building the error, drops the credential
\* strategies from the client's configuration
fetchRejects_disablesAuth(i, err) ==
  /\ pc[i] = "fetch"
  /\ fetchResult' = [fetchResult EXCEPT ![i] = Raised(err)]
  /\ result' = [result EXCEPT ![i] = Returned(networkError(err))]
  /\ pc' = [pc EXCEPT ![i] = "done"]
  /\ client' = [client EXCEPT !.config.getAuthToken = Undefined,
                               !.config.auth = Undefined]
  /\ UNCHANGED <<jwtLoaded, call, headers, auth, fetchCalls>>

\* `await fetch(...)` throws: the catch block
fetchRejects(i, err) ==
  /\ pc[i] = "fetch"
  /\ fetchResult' = [fetchResult EXCEPT ![i] = Raised(err)]
  /\ result' = [result EXCEPT ![i] = Returned(networkError(err))]
  /\ pc' = [pc EXCEPT ![i] = "done"]
  /\ UNCHANGED <<client, jwtLoaded, call, headers, auth, fetchCalls>>

\* `await fetch(...)` gives a Response: parseError is awaited when it is not
\* ok, a 204 returns at once, and any other body is awaited from res.json()
fetchResolves(i, res) ==
  /\ pc[i] = "fetch"
  /\ fetchResult' = [fetchResult EXCEPT ![i] = Returned(res)]
  /\ IF ~resOk(res)
       THEN pc' = [pc EXCEPT ![i] = "parseError"] /\ UNCHANGED result
       ELSE IF res.status = 204
         THEN /\ result' = [result EXCEPT ![i] = Returned(dataResponse(Null))]
              /\ pc' = [pc EXCEPT ![i] = "done"]
         ELSE pc' = [pc EXCEPT ![i] = "json"] /\ UNCHANGED result
  /\ UNCHANGED <<client, jwtLoaded, call, headers, auth, fetchCalls>>

\* return { data: null, error: await this.parseError(res) }
parseErrorSettles(i) ==
  /\ pc[i] = "parseError"
  /\ result' = [result EXCEPT ![i] =
       Returned(errorResponse(parseError(fetchResult[i].value)))]
  /\ pc' = [pc EXCEPT ![i] = "done"]
  /\ UNCHANGED <<client, jwtLoaded, call, headers, auth, fetchCalls, fetchResult>>

\* `await res.json()` gives the data, or throws into the catch block
jsonSettles(i) ==
  LET parsed == json(fetchResult[i].value)
  IN  /\ pc[i] = "json"
      /\ result' = [result EXCEPT ![i] =
           IF parsed.kind = "returned"
             THEN Returned(dataResponse(parsed.value))
             ELSE Returned(networkError(parsed.value))]
      /\ pc' = [pc EXCEPT ![i] = "done"]
      /\ UNCHANGED <<client, jwtLoaded, call, headers, auth, fetchCalls, fetchResult>>

----------------------------------------------------------------------------
\* SdkResponse helpers, as called

callOk(i, data) ==
  /\ pc[i] = "idle"
  /\ call' = [call EXCEPT ![i] = [op |-> "ok", arg |-> data, unwrapped |-> Pending]]
  /\ result' = [result EXCEPT ![i] = Returned(ok(data))]
  /\ pc' = [pc EXCEPT ![i] = "done"]
  /\ UNCHANGED <<client, jwtLoaded, headers, auth, fetchCalls, fetchResult>>

callFail(i, error) ==
  /\ pc[i] = "idle"
  /\ call' = [call EXCEPT ![i] = [op |-> "fail", arg |-> error, unwrapped |-> Pending]]
  /\ result' = [result EXCEPT ![i] = Returned(fail(error))]
  /\ pc' = [pc EXCEPT ![i] = "done"]
  /\ UNCHANGED <<client, jwtLoaded, headers, auth, fetchCalls, fetchResult>>

\* trySdk(fn, fallbackCode) up to `await fn()`
callTrySdk(i, fallbackCode) ==
  /\ pc[i] = "idle"
  /\ call' = [call EXCEPT ![i] =
       [op |-> "trySdk", fallbackCode |-> fallbackCode, defaulted |-> FALSE,
        settled |-> Pending, unwrapped |-> Pending]]
  /\ pc' = [pc EXCEPT ![i] = "fn"]
  /\ UNCHANGED <<client, jwtLoaded, headers, auth, fetchCalls, fetchResult, result>>

\* trySdk(fn): the parameter takes its default, `fallbackCode = 'internal'`
callTrySdkDefault(i) ==
  /\ pc[i] = "idle"
  /\ call' = [call EXCEPT ![i] =
       [op |-> "trySdk", fallbackCode |-> "internal", defaulted |-> TRUE,
        settled |-> Pending, unwrapped |-> Pending]]
  /\ pc' = [pc EXCEPT ![i] = "fn"]
  /\ UNCHANGED <<client, jwtLoaded, headers, auth, fetchCalls, fetchResult, result>>

\* `await fn()` settles
fnSettles(i, settled) ==
  /\ pc[i] = "fn"
  /\ result' = [result EXCEPT ![i] = Returned(trySdk(settled, call[i].fallbackCode))]
  /\ call' = [call EXCEPT ![i].settled = settled]
  /\ pc' = [pc EXCEPT ![i] = "done"]
  /\ UNCHANGED <<client, jwtLoaded, headers, auth, fetchCalls, fetchResult>>

\* The caller calls throwOnError() on the response that ok, fail or trySdk gave
throwOnError(i) ==
  /\ pc[i] = "done"
  /\ call[i].op \in {"ok", "fail", "trySdk"}
  /\ call[i].unwrapped = Pending
  /\ call' = [call EXCEPT ![i].unwrapped = result[i].value.throwOnError]
  /\ UNCHANGED <<client, jwtLoaded, pc, headers, auth, fetchCalls, fetchResult, result>>

\* The caller takes the result; the slot can hold another invocation.
release(i) ==
  /\ pc[i] = "done"
  /\ pc' = [pc EXCEPT ![i] = "idle"]
  /\ call' = [call EXCEPT ![i] = NoCall]
  /\ headers' = [headers EXCEPT ![i] = NoHeaders]
  /\ auth' = [auth EXCEPT ![i] = "none"]
  /\ fetchCalls' = [fetchCalls EXCEPT ![i] = <<>>]
  /\ fetchResult' = [fetchResult EXCEPT ![i] = Pending]
  /\ result' = [result EXCEPT ![i] = Pending]
  /\ UNCHANGED <<client, jwtLoaded>>

----------------------------------------------------------------------------
\* The specification: callers that await each call before making the next

OthersIdle(i) == \A j \in Reqs \ {i} : pc[j] = "idle"

Next ==
  \E i \in Reqs :
    /\ UNCHANGED tierVars
    /\ UNCHANGED taskVars
    /\ \/ \E m \in Methods, p \in Paths, o \in OptionsSet :
            OthersIdle(i) /\ request(i, m, p, o)
       \/ getAuthTokenReturns(i)
       \/ \E e \in CallbackThrows : getAuthTokenThrows(i, e)
       \/ \E e \in ImportThrows : importFails(i, e)
       \/ signReturns(i)
       \/ \E e \in SignThrows : signThrows(i, e)
       \/ noStrategy(i)
       \/ \E e \in FetchThrows : fetchRejects(i, e)
       \/ \E r \in Responses : fetchResolves(i, r)
       \/ parseErrorSettles(i)
       \/ jsonSettles(i)
       \/ \E d \in OkData : OthersIdle(i) /\ callOk(i, d)
       \/ \E e \in RememberErrors : OthersIdle(i) /\ callFail(i, e)
       \/ \E c \in FallbackCodes : OthersIdle(i) /\ callTrySdk(i, c)
       \/ OthersIdle(i) /\ callTrySdkDefault(i)
       \/ \E s \in FnSettles : fnSettles(i, s)
       \/ throwOnError(i)
       \/ release(i)

Spec == Init /\ [][Next]_vars

----------------------------------------------------------------------------
\* The browser guard and the client factories

\* A guard that lets every environment through
assertServerSide_never(w) == Returned(Undefined)

\* assertServerSide(): throws when `typeof window !== 'undefined'`
assertServerSide(w) ==
  IF w.t # "undefined"
    THEN Raised(Err("Client SDKs are server-side only."))
    ELSE Returned(Undefined)

\* The value of `client` before any HttpClient is constructed
NoClient == Undefined

\* The object createSvcClient returns: every resource holds the one HttpClient
\* (the resources whose classes the repository defines)
SvcClient(http) == [memories |-> [http |-> http], relationships |-> [http |-> http]]

\* The object createAppClient returns
AppClient(http) == [profiles |-> [http |-> http], ghost |-> [http |-> http]]

Busy(i) == pc[i] # "idle" \/ app[i] # NoApp
NoneBusy == \A i \in Reqs : ~Busy(i)

\* createSvcClient(config): assertServerSide(), then new HttpClient(config),
\* then the resources
createSvcClient(cfg) ==
  LET guard == assertServerSide(window)
  IN  /\ NoneBusy
      /\ IF guard.kind = "raised"
           THEN made' = guard /\ UNCHANGED client
           ELSE /\ client' = HttpClient(cfg)
                /\ made' = Returned(SvcClient(HttpClient(cfg)))
      /\ UNCHANGED <<jwtLoaded, pc, call, headers, auth, fetchCalls, fetchResult,
                     result, window, app>>

\* createAppClient(config)
createAppClient(cfg) ==
  LET guard == assertServerSide(window)
  IN  /\ NoneBusy
      /\ IF guard.kind = "raised"
           THEN made' = guard /\ UNCHANGED client
           ELSE /\ client' = HttpClient(cfg)
                /\ made' = Returned(AppClient(HttpClient(cfg)))
      /\ UNCHANGED <<jwtLoaded, pc, call, headers, auth, fetchCalls, fetchResult,
                     result, window, app>>

\* Which client the last factory call returned, if it returned one
HasSvcClient == made.kind = "returned" /\ "memories" \in DOMAIN made.value
HasAppClient == made.kind = "returned" /\ "profiles" \in DOMAIN made.value

----------------------------------------------------------------------------
\* The two client tiers: what a method does next, given the settled results
\* `outs` of the http.request calls it has awaited so far. It either calls
\* http.request again or settles its own promise.

Arr(items) == [t |-> "array", items |-> items]

\* `${v}`
ToStr(v) ==
  CASE v.t = "string" -> v.v
    [] v.t = "number" -> ToString(v.v)
    [] v.t = "undefined" -> "undefined"
    [] v.t = "null" -> "null"
    [] OTHER -> "[object Object]"

\* The number literal 0.3
ZeroPointThree == [t |-> "number", tenths |-> 3]

Req(method, path, options) ==
  [do |-> "request", method |-> method, path |-> path, options |-> options]
Settle(with) == [do |-> "settle", with |-> with]

\* Reading a property of null or undefined (`memory.data!.id` with no data)
TypeError(prop) ==
  Err("Cannot read properties of null (reading '" \o prop \o "')")

\* The methods of MemoriesResource and RelationshipsResource: the verb, the
\* path, whether `/${id}` follows the path, and whether the input is the body
AtomicMethod(resource, name, method, path, withId, withBody) ==
  [resource |-> resource, name |-> name, method |-> method, path |-> path,
   withId |-> withId, withBody |-> withBody]

MemoriesResource ==
  { AtomicMethod("memories", "create", "POST", "api/svc/v1/memories", FALSE, TRUE),
    AtomicMethod("memories", "update", "PATCH", "api/svc/v1/memories", TRUE, TRUE),
    AtomicMethod("memories", "delete", "DELETE", "api/svc/v1/memories", TRUE, FALSE),
    AtomicMethod("memories", "search", "POST", "api/svc/v1/memories/search", FALSE, TRUE),
    AtomicMethod("memories", "similar", "POST", "api/svc/v1/memories/similar", FALSE, TRUE),
    AtomicMethod("memories", "query", "POST", "api/svc/v1/memories/query", FALSE, TRUE) }

RelationshipsResource ==
  { AtomicMethod("relationships", "create", "POST", "api/svc/v1/relationships", FALSE, TRUE),
    AtomicMethod("relationships", "update", "PATCH", "api/svc/v1/relationships", TRUE, TRUE),
    AtomicMethod("relationships", "delete", "DELETE", "api/svc/v1/relationships", TRUE, FALSE),
    AtomicMethod("relationships", "search", "POST", "api/svc/v1/relationships/search",
                 FALSE, TRUE) }

\* A resource method that sends the record's id as the acting identity
atomic_wrongIdentity(m, userId, id, input, outs) ==
  IF outs = <<>>
    THEN Req(m.method,
             <<"/", IF m.withId THEN m.path \o "/" \o ToStr(id) ELSE m.path>>,
             IF m.withBody THEN Obj([body |-> input, userId |-> id])
                           ELSE Obj([userId |-> id]))
    ELSE Settle(outs[1])

\* A resource method: return this.http.request(verb, path, { body: input, userId })
\* It is not async: the promise of http.request is the method's own.
atomic(m, userId, id, input, outs) ==
  IF outs = <<>>
    THEN Req(m.method,
             <<"/", IF m.withId THEN m.path \o "/" \o ToStr(id) ELSE m.path>>,
             IF m.withBody THEN Obj([body |-> input, userId |-> userId])
                           ELSE Obj([userId |-> userId]))
    ELSE Settle(outs[1])

\* createAndPublish without the check of the publish step: it goes on to the
\* confirm call whatever the publish call gave
createAndPublish_noPublishCheck(userId, input, outs) ==
  LET n == Len(outs)
      last == outs[n].value
  IN  IF n = 0 THEN
        Req("POST", <<"/", "api/svc/v1/memories">>,
            Obj([ body |-> Obj([ content |-> stringify(input),
                                 type |-> S("profile"),
                                 tags |-> Arr(<<S("profile")>> \o
                                   Coalesce(Get(input, "tags"), Arr(<<>>)).items) ]),
                  userId |-> userId ]))
      ELSE IF outs[n].kind = "raised" THEN Settle(outs[n])
      ELSE IF n = 1 THEN
        IF Truthy(last.error) THEN Settle(Returned(fail(last.error)))
        ELSE IF Nullish(last.data) THEN Settle(Raised(TypeError("id")))
        ELSE Req("POST", <<"/", "api/svc/v1/spaces/publish">>,
                 Obj([ body |-> Obj([ memory_id |-> Get(last.data, "id"),
                                      spaces |-> Arr(<<S("public")>>) ]),
                       userId |-> userId ]))
      ELSE IF n = 2 THEN
        Req("POST",
            <<"/", "api/svc/v1/confirmations/"
                     \o ToStr(Get(last.data, "token")) \o "/confirm">>,
            Obj([userId |-> userId]))
      ELSE Settle(Returned(last))

\* ProfileOperations.createAndPublish(userId, input)
createAndPublish(userId, input, outs) ==
  LET n == Len(outs)
      last == outs[n].value
  IN  IF n = 0 THEN
        Req("POST", <<"/", "api/svc/v1/memories">>,
            Obj([ body |-> Obj([ content |-> stringify(input),
                                 type |-> S("profile"),
                                 tags |-> Arr(<<S("profile")>> \o
                                   Coalesce(Get(input, "tags"), Arr(<<>>)).items) ]),
                  userId |-> userId ]))
      ELSE IF outs[n].kind = "raised" THEN Settle(outs[n])
      ELSE IF n = 1 THEN
        IF Truthy(last.error) THEN Settle(Returned(fail(last.error)))
        ELSE IF Nullish(last.data) THEN Settle(Raised(TypeError("id")))
        ELSE Req("POST", <<"/", "api/svc/v1/spaces/publish">>,
                 Obj([ body |-> Obj([ memory_id |-> Get(last.data, "id"),
                                      spaces |-> Arr(<<S("public")>>) ]),
                       userId |-> userId ]))
      ELSE IF n = 2 THEN
        IF Truthy(last.error) THEN Settle(Returned(fail(last.error)))
        ELSE IF Nullish(last.data) THEN Settle(Raised(TypeError("token")))
        ELSE Req("POST",
                 <<"/", "api/svc/v1/confirmations/"
                          \o ToStr(Get(last.data, "token")) \o "/confirm">>,
                 Obj([userId |-> userId]))
      ELSE Settle(Returned(last))

\* retract returning the SdkResponse of its first call, the retract, instead
\* of that of the confirm call
retract_returnsToken(userId, input, outs) ==
  LET n == Len(outs)
      last == outs[n].value
  IN  IF n = 0 THEN
        Req("POST", <<"/", "api/svc/v1/spaces/retract">>,
            Obj([body |-> input, userId |-> userId]))
      ELSE IF outs[n].kind = "raised" THEN Settle(outs[n])
      ELSE IF n = 1 THEN
        IF Truthy(last.error) THEN Settle(Returned(fail(last.error)))
        ELSE IF Nullish(last.data) THEN Settle(Raised(TypeError("token")))
        ELSE Req("POST",
                 <<"/", "api/svc/v1/confirmations/"
                          \o ToStr(Get(last.data, "token")) \o "/confirm">>,
                 Obj([userId |-> userId]))
      ELSE Settle(outs[1])

\* ProfileOperations.retract(userId, input)
retract(userId, input, outs) ==
  LET n == Len(outs)
      last == outs[n].value
  IN  IF n = 0 THEN
        Req("POST", <<"/", "api/svc/v1/spaces/retract">>,
            Obj([body |-> input, userId |-> userId]))
      ELSE IF outs[n].kind = "raised" THEN Settle(outs[n])
      ELSE IF n = 1 THEN
        IF Truthy(last.error) THEN Settle(Returned(fail(last.error)))
        ELSE IF Nullish(last.data) THEN Settle(Raised(TypeError("token")))
        ELSE Req("POST",
                 <<"/", "api/svc/v1/confirmations/"
                          \o ToStr(Get(last.data, "token")) \o "/confirm">>,
                 Obj([userId |-> userId]))
      ELSE Settle(outs[n])

\* GhostOperations.searchAsGhost(userId, input)
searchAsGhost(userId, input, outs) ==
  LET n == Len(outs)
      last == outs[n].value
  IN  IF n = 0 THEN
        Req("GET", <<"/", "api/svc/v1/trust/ghost-config">>,
            Obj([userId |-> Get(input, "owner_user_id")]))
      ELSE IF outs[n].kind = "raised" THEN Settle(outs[n])
      ELSE IF n = 1 THEN
        IF Truthy(last.error) THEN Settle(Returned(fail(last.error)))
        ELSE IF Nullish(last.data) THEN Settle(Raised(TypeError("user_trust")))
        ELSE Req("POST", <<"/", "api/svc/v1/memories/search">>,
                 Obj([ body |-> Obj([
                         query |-> Get(input, "query"),
                         limit |-> Coalesce(Get(input, "limit"), N(20)),
                         ghost_context |-> Obj([
                           accessor_user_id |-> userId,
                           trust_level |->
                             Coalesce(OptGet(Get(last.data, "user_trust"), userId.v),
                                      ZeroPointThree) ]) ]),
                       userId |-> Get(input, "owner_user_id") ]))
      ELSE Settle(outs[n])

\* What the method running in a slot does next
Decide(a) ==
  CASE a.op = "atomic" ->
         atomic(a.args.m, a.args.userId, a.args.id, a.args.input, a.outs)
    [] a.op = "createAndPublish" ->
         createAndPublish(a.args.userId, a.args.input, a.outs)
    [] a.op = "retract" -> retract(a.args.userId, a.args.input, a.outs)
    [] a.op = "searchAsGhost" -> searchAsGhost(a.args.userId, a.args.input, a.outs)

\* A method of either tier is called: it runs to its first http.request
methodCall(i, op, args) ==
  LET a == [op |-> op, args |-> args, phase |-> "awaiting", calls |-> 1,
            outs |-> <<>>, result |-> Pending]
      d == Decide(a)
  IN  /\ app[i] = NoApp
      /\ request(i, d.method, d.path, d.options)
      /\ app' = [app EXCEPT ![i] = a]
      /\ UNCHANGED <<window, made>>

\* A method that goes on without waiting for its http.request to settle
stepReturns_early(i) ==
  /\ app[i] # NoApp
  /\ app[i].phase = "awaiting"
  /\ pc[i] # "idle"
  /\ pc' = [pc EXCEPT ![i] = "idle"]
  /\ call' = [call EXCEPT ![i] = NoCall]
  /\ headers' = [headers EXCEPT ![i] = NoHeaders]
  /\ auth' = [auth EXCEPT ![i] = "none"]
  /\ fetchCalls' = [fetchCalls EXCEPT ![i] = <<>>]
  /\ fetchResult' = [fetchResult EXCEPT ![i] = Pending]
  /\ result' = [result EXCEPT ![i] = Pending]
  /\ app' = [app EXCEPT ![i].outs = Append(@, result[i]), ![i].phase = "resumed"]
  /\ UNCHANGED <<client, jwtLoaded, window, made>>

\* The http.request the method waits for has settled: the method takes its
\* result
stepReturns(i) ==
  /\ app[i] # NoApp
  /\ app[i].phase = "awaiting"
  /\ pc[i] = "done"
  /\ release(i)
  /\ app' = [app EXCEPT ![i].outs = Append(@, result[i]), ![i].phase = "resumed"]
  /\ UNCHANGED <<window, made>>

\* The method goes on from that result: it settles its own promise, or calls
\* http.request for its next step
methodContinues(i) ==
  /\ app[i] # NoApp
  /\ app[i].phase = "resumed"
  /\ LET d == Decide(app[i])
     IN  IF d.do = "settle"
           THEN /\ app' = [app EXCEPT ![i].phase = "done", ![i].result = d.with]
                /\ UNCHANGED <<client, jwtLoaded, pc, call, headers, auth,
                               fetchCalls, fetchResult, result>>
           ELSE /\ request(i, d.method, d.path, d.options)
                /\ app' = [app EXCEPT ![i].phase = "awaiting", ![i].calls = @ + 1]
  /\ UNCHANGED <<window, made>>

\* The caller takes the method's result
methodRelease(i) ==
  /\ app[i] # NoApp
  /\ app[i].phase = "done"
  /\ app' = [app EXCEPT ![i] = NoApp]
  /\ UNCHANGED <<client, jwtLoaded, pc, call, headers, auth, fetchCalls,
                 fetchResult, result, window, made>>

----------------------------------------------------------------------------
\* The specification of the client tiers: a process, on a server or in a
\* browser, that makes its clients with the factories and awaits each method
\* before calling the next

TierConfigs ==
  { [baseUrl |-> <<"https://api.example.com">>, getAuthToken |-> g, auth |-> a] :
      <<g, a>> \in { <<Undefined, Undefined>>, <<Fn, Undefined>>,
                     <<Undefined, AuthConfig("secret")>> } }

Windows == {Undefined, Obj(<<>>)}

TierUserIds == {S("u1"), S("u2")}
TierIds == {S("m1")}
CreateProfileInputs ==
  { Obj([display_name |-> S("Pat")]),
    Obj([display_name |-> S("Pat"), tags |-> Arr(<<S("developer")>>)]) }
RetractInputs == { Obj([memory_id |-> S("m1")]) }
GhostInputs ==
  { Obj([owner_user_id |-> S("u2"), query |-> S("project ideas")]),
    Obj([owner_user_id |-> S("u2"), query |-> S("project ideas"), limit |-> N(10)]) }

\* What the server answers to the calls of the two tiers
TierResponses ==
  { Response(201, Json(Obj([id |-> S("m1")]))),
    Response(200, Json(Obj([token |-> S("t1")]))),
    Response(200, Json(Obj([user_trust |-> Obj([u1 |-> N(1)])]))),
    Response(200, Json(Null)),
    Response(204, NoBody),
    Response(404, Json(Obj([code |-> S("not_found"), message |-> S("no such memory")]))),
    Response(500, NoBody) }

InitTiers ==
  /\ TaskServiceUnloaded
  /\ client = NoClient
  /\ window \in Windows
  /\ made = Pending
  /\ app = [i \in Reqs |-> NoApp]
  /\ jwtLoaded = FALSE
  /\ pc = [i \in Reqs |-> "idle"]
  /\ call = [i \in Reqs |-> NoCall]
  /\ headers = [i \in Reqs |-> NoHeaders]
  /\ auth = [i \in Reqs |-> "none"]
  /\ fetchCalls = [i \in Reqs |-> <<>>]
  /\ fetchResult = [i \in Reqs |-> Pending]
  /\ result = [i \in Reqs |-> Pending]

NextTiers ==
  /\ UNCHANGED taskVars
  /\   \/ \E cfg \in TierConfigs : createSvcClient(cfg)
       \/ \E cfg \in TierConfigs : createAppClient(cfg)
       \/ \E i \in Reqs :
            \/ \E m \in MemoriesResource \cup RelationshipsResource,
                  u \in TierUserIds, id \in TierIds :
                 /\ NoneBusy /\ HasSvcClient
                 /\ methodCall(i, "atomic",
                      [m |-> m, userId |-> u, id |-> id, input |-> Payload])
            \/ \E u \in TierUserIds, in \in CreateProfileInputs :
                 /\ NoneBusy /\ HasAppClient
                 /\ methodCall(i, "createAndPublish", [userId |-> u, input |-> in])
            \/ \E u \in TierUserIds, in \in RetractInputs :
                 /\ NoneBusy /\ HasAppClient
                 /\ methodCall(i, "retract", [userId |-> u, input |-> in])
            \/ \E in \in GhostInputs :
                 /\ NoneBusy /\ HasAppClient
                 /\ methodCall(i, "searchAsGhost", [userId |-> S("u1"), input |-> in])
            \/ stepReturns(i)
            \/ methodContinues(i)
            \/ methodRelease(i)
            \/ /\ UNCHANGED tierVars
               /\ \/ getAuthTokenReturns(i)
                  \/ \E e \in CallbackThrows : getAuthTokenThrows(i, e)
                  \/ \E e \in ImportThrows : importFails(i, e)
                  \/ signReturns(i)
                  \/ \E e \in SignThrows : signThrows(i, e)
                  \/ noStrategy(i)
                  \/ \E e \in FetchThrows : fetchRejects(i, e)
                  \/ \E r \in TierResponses : fetchResolves(i, r)
                  \/ parseErrorSettles(i)
                  \/ jsonSettles(i)

SpecTiers == InitTiers /\ [][NextTiers]_vars

----------------------------------------------------------------------------
\* The specification of concurrent use: callers that call request() on one
\* client without awaiting each other, for different users

ConcConfigs ==
  { [baseUrl |-> <<"https://api.example.com">>, getAuthToken |-> g, auth |-> a] :
      <<g, a>> \in {<<Fn, Undefined>>, <<Undefined, AuthConfig("secret")>>} }

ConcOptions == { Obj([userId |-> S(u)]) : u \in {"u1", "u2"} }

ConcResponses ==
  { Response(200, Json(Obj([id |-> S("w2"), name |-> S("Gadget")]))),
    Response(204, NoBody),
    Response(404, Json(Obj([code |-> S("not_found"), message |-> S("Widget w1 not found")]))),
    Response(500, NoBody) }

InitConc ==
  /\ TaskServiceUnloaded
  /\ \E cfg \in ConcConfigs : client = HttpClient(cfg)
  /\ window = Undefined
  /\ made = Pending
  /\ app = [i \in Reqs |-> NoApp]
  /\ jwtLoaded = FALSE
  /\ pc = [i \in Reqs |-> "idle"]
  /\ call = [i \in Reqs |-> NoCall]
  /\ headers = [i \in Reqs |-> NoHeaders]
  /\ auth = [i \in Reqs |-> "none"]
  /\ fetchCalls = [i \in Reqs |-> <<>>]
  /\ fetchResult = [i \in Reqs |-> Pending]
  /\ result = [i \in Reqs |-> Pending]

NextConc ==
  \E i \in Reqs :
    /\ UNCHANGED tierVars
    /\ UNCHANGED taskVars
    /\ \/ \E p \in Paths, o \in ConcOptions : request(i, "GET", p, o)
       \/ getAuthTokenReturns(i)
       \/ \E e \in {Err("token service down")} : getAuthTokenThrows(i, e)
       \/ \E e \in ImportThrows : importFails(i, e)
       \/ signReturns(i)
       \/ \E e \in {Err("fetch failed")} : fetchRejects(i, e)
       \/ \E r \in ConcResponses : fetchResolves(i, r)
       \/ parseErrorSettles(i)
       \/ jsonSettles(i)
       \/ release(i)

SpecConc == InitConc /\ [][NextConc]_vars

----------------------------------------------------------------------------
\* The specification of what goes on the wire: clients whose base URL has a
\* path or a trailing slash, and calls with query parameters, extra headers,
\* bodies and acting identities of every kind

Origin == "https://api.example.com"
WireBaseUrls ==
  { <<Origin>>, <<Origin, "/">>, <<Origin, "/", "v2">>, <<Origin, "/", "v2", "/">> }

WireConfigs ==
  { [baseUrl |-> b, getAuthToken |-> sa[1], auth |-> sa[2]] :
      b \in WireBaseUrls,
      sa \in { <<Undefined, Undefined>>, <<Fn, Undefined>>,
               <<Undefined, AuthConfig("secret")>> } }

\* options.body: absent, an object, or the number 0
WireBodies == {Undefined, Payload, N(0)}
WireParams == {Undefined, Obj([limit |-> S("10")])}
WireHeaders == {Undefined, Obj("X-Trace" :> S("t1"))}
WireUserIds == {Undefined, S(""), S("u1")}

WireOptions ==
  {Undefined} \cup
  { Obj([userId |-> u, body |-> b, params |-> p, headers |-> h]) :
      u \in WireUserIds, b \in WireBodies, p \in WireParams, h \in WireHeaders }

WireResponses ==
  { Response(200, Json(Obj([id |-> S("w2"), name |-> S("Gadget")]))),
    Response(500, NoBody) }

InitWire ==
  /\ TaskServiceUnloaded
  /\ \E cfg \in WireConfigs : client = HttpClient(cfg)
  /\ window = Undefined
  /\ made = Pending
  /\ app = [i \in Reqs |-> NoApp]
  /\ jwtLoaded = FALSE
  /\ pc = [i \in Reqs |-> "idle"]
  /\ call = [i \in Reqs |-> NoCall]
  /\ headers = [i \in Reqs |-> NoHeaders]
  /\ auth = [i \in Reqs |-> "none"]
  /\ fetchCalls = [i \in Reqs |-> <<>>]
  /\ fetchResult = [i \in Reqs |-> Pending]
  /\ result = [i \in Reqs |-> Pending]

NextWire ==
  \E i \in Reqs :
    /\ UNCHANGED tierVars
    /\ UNCHANGED taskVars
    /\ \/ \E m \in Methods, p \in Paths, o \in WireOptions :
            OthersIdle(i) /\ request(i, m, p, o)
       \/ getAuthTokenReturns(i)
       \/ \E e \in CallbackThrows : getAuthTokenThrows(i, e)
       \/ \E e \in ImportThrows : importFails(i, e)
       \/ signReturns(i)
       \/ noStrategy(i)
       \/ \E e \in {Err("fetch failed")} : fetchRejects(i, e)
       \/ \E r \in WireResponses : fetchResolves(i, r)
       \/ parseErrorSettles(i)
       \/ jsonSettles(i)
       \/ release(i)

SpecWire == InitWire /\ [][NextWire]_vars

----------------------------------------------------------------------------
\* The task service: its error classes and toTaskError

\* TaskError and the classes that extend it
TaskErrorClasses ==
  { "TaskError", "TaskNotFoundError", "TaskValidationError", "TaskAlreadyExistsError",
    "TaskStateError", "MilestoneNotFoundError", "TaskItemNotFoundError",
    "TaskMessageNotFoundError", "TaskAuthorizationError", "TaskDatabaseError",
    "TaskConfigurationError", "TaskLimitExceededError", "TaskOperationTimeoutError",
    "FirebaseConnectionError", "InvalidInputError" }

\* new TaskError(message, code, statusCode, details), or the `super(...)` call
\* of a class that extends it; ref tells one object from another that has the
\* same fields
TaskError(class, ref, message, code, statusCode, details) ==
  [ t |-> "object", inst |-> class, ref |-> ref,
    f |-> [ name |-> S(class), message |-> S(message), code |-> S(code),
            statusCode |-> N(statusCode), details |-> details ] ]

\* new TaskNotFoundError(taskId, userId)
TaskNotFoundError(ref, taskId, userId) ==
  TaskError("TaskNotFoundError", ref, "Task not found: " \o taskId.v, "TASK_NOT_FOUND",
            404, Obj([taskId |-> taskId, userId |-> userId]))

\* new TaskDatabaseError(message, originalError)
TaskDatabaseError(ref, message, originalError) ==
  TaskError("TaskDatabaseError", ref, "Database error: " \o message,
            "TASK_DATABASE_ERROR", 500,
            Obj([originalError |-> OptGet(originalError, "message")]))

\* error instanceof TaskError
isTaskError(error) == error.t = "object" /\ error.inst \in TaskErrorClasses

\* error instanceof Error, for the classes of the task service as well
instanceofError(error) ==
  error.t = "object" /\ error.inst \in {"Error"} \cup TaskErrorClasses

\* An object made by Object.create(null): it has no toString and no valueOf
NullPrototypeObject == [t |-> "object", inst |-> "null", f |-> <<>>]

\* String(value): the conversion throws a TypeError for an object that has
\* neither toString nor valueOf
StringOf(value) ==
  CASE value.t = "string" -> Returned(value.v)
    [] value.t = "number" -> Returned(ToString(value.v))
    [] value.t = "undefined" -> Returned("undefined")
    [] value.t = "null" -> Returned("null")
    [] value.t = "function" -> Returned("function () {}")
    [] value.t = "object" /\ value.inst = "null" ->
         Raised(Err("Cannot convert object to primitive value"))
    [] value.t = "object" /\ instanceofError(value) ->
         Returned(value.inst \o ": " \o Get(value, "message").v)
    [] OTHER -> Returned("[object Object]")

\* toTaskError(error); ref is the identity of the object it makes, when it
\* makes one
toTaskError(error, ref) ==
  IF isTaskError(error) THEN Returned(error)
  ELSE IF instanceofError(error)
    THEN Returned(TaskDatabaseError(ref, Get(error, "message").v, error))
    ELSE IF StringOf(error).kind = "raised"
      THEN StringOf(error)
      ELSE Returned(TaskDatabaseError(ref, StringOf(error).value, Undefined))

\* What a catch block can hand to toTaskError
ThrownValues ==
  { TaskNotFoundError(1, S("task-123"), Undefined),
    TaskNotFoundError(1, S("task-123"), S("u1")),
    TaskDatabaseError(1, "disk full", Undefined),
    TaskError("TaskError", 1, "custom", "TASK_STATE_ERROR", 409, Undefined),
    Err("Something went wrong"),
    S("Error message"),
    N(42),
    Null,
    Undefined,
    Obj([custom |-> S("error")]),
    Obj([code |-> S("TASK_NOT_FOUND"), statusCode |-> N(404), message |-> S("fake")]),
    NullPrototypeObject }

\* The identity of the next object made; the thrown values have identity 1
FirstRef == 2

\* toTaskError(error) is called
callToTaskError(error) ==
  /\ conv = [fn |-> "none"]
  /\ conv' = [ fn |-> "toTaskError", arg |-> error,
               out |-> toTaskError(error, FirstRef), again |-> Pending ]
  /\ UNCHANGED <<store, worker, fbClient, fbApps, serviceDb, fbCall>>

\* toTaskError is called on what toTaskError returned
callToTaskErrorAgain ==
  /\ conv.fn = "toTaskError"
  /\ conv.out.kind = "returned"
  /\ conv.again = Pending
  /\ conv' = [conv EXCEPT !.again = toTaskError(conv.out.value, FirstRef + 1)]
  /\ UNCHANGED <<store, worker, fbClient, fbApps, serviceDb, fbCall>>

\* The caller is done with the result
convRelease ==
  /\ conv # [fn |-> "none"]
  /\ conv' = [fn |-> "none"]
  /\ UNCHANGED <<store, worker, fbClient, fbApps, serviceDb, fbCall>>

----------------------------------------------------------------------------
\* The task service: the transformers from the Task schema to API responses

\* toTaskItemApiResponse(item)
toTaskItemApiResponse(item) ==
  [ id |-> item.id, name |-> item.name, description |-> item.description,
    status |-> item.status, estimated_hours |-> item.estimated_hours,
    completed_at |-> item.completed_at, notes |-> item.notes ]

\* toMilestoneApiResponse(milestone)
toMilestoneApiResponse(milestone) ==
  [ id |-> milestone.id, name |-> milestone.name,
    description |-> milestone.description, status |-> milestone.status,
    progress |-> milestone.progress, tasks_completed |-> milestone.tasks_completed,
    tasks_total |-> milestone.tasks_total, started_at |-> milestone.started_at,
    completed_at |-> milestone.completed_at ]

\* array.map(fn)
Map(fn(_), array) == [k \in 1..Len(array) |-> fn(array[k])]

\* toTaskProgressApiResponse(progress)
toTaskProgressApiResponse(progress) ==
  [ current_milestone |-> progress.project.current_milestone,
    current_task |-> S(ToString(progress.progress.overall.v)),
    overall_percentage |-> progress.progress.overall,
    milestones |-> Map(toMilestoneApiResponse, progress.milestones),
    tasks |-> [ milestoneId \in DOMAIN progress.tasks |->
                  Map(toTaskItemApiResponse, progress.tasks[milestoneId]) ] ]

\* toTaskConfigApiResponse(config)
toTaskConfigApiResponse(config) ==
  [ system_prompt |-> config.system_prompt, auto_approve |-> config.auto_approve,
    max_iterations |-> config.max_iterations ]

\* toTaskMetadataApiResponse(metadata)
toTaskMetadataApiResponse(metadata) ==
  IF metadata = Undefined THEN Undefined
  ELSE [ conversation_id |-> metadata.conversation_id,
         parent_task_id |-> metadata.parent_task_id,
         tags |-> metadata.tags ]

\* A toTaskApiResponse written with a spread of the task
toTaskApiResponse_spread(task) ==
  [ id |-> task.id, user_id |-> task.user_id, title |-> task.title,
    description |-> task.description, status |-> task.status,
    created_at |-> task.created_at, updated_at |-> task.updated_at,
    started_at |-> task.started_at, completed_at |-> task.completed_at,
    machine_id |-> task.machine_id, working_directory |-> task.working_directory,
    execution |-> task.execution,
    progress |-> toTaskProgressApiResponse(task.progress),
    config |-> toTaskConfigApiResponse(task.config),
    metadata |-> toTaskMetadataApiResponse(task.metadata) ]

\* toTaskApiResponse(task)
toTaskApiResponse(task) ==
  [ id |-> task.id, user_id |-> task.user_id, title |-> task.title,
    description |-> task.description, status |-> task.status,
    created_at |-> task.created_at, updated_at |-> task.updated_at,
    started_at |-> task.started_at, completed_at |-> task.completed_at,
    progress |-> toTaskProgressApiResponse(task.progress),
    config |-> toTaskConfigApiResponse(task.config),
    metadata |-> toTaskMetadataApiResponse(task.metadata) ]

\* toTaskListApiResponse(tasks)
toTaskListApiResponse(tasks) ==
  [ tasks |-> Map(toTaskApiResponse, tasks), total |-> Len(tasks) ]

\* Values of the Task schema
Milestone(id, status) ==
  [ id |-> id, name |-> S("Milestone " \o id), description |-> S(""),
    status |-> status, progress |-> N(IF status = "completed" THEN 100 ELSE 0),
    tasks_completed |-> N(0), tasks_total |-> N(1),
    started_at |-> Undefined, completed_at |-> Undefined ]

TaskItem(id, status) ==
  [ id |-> id, name |-> S("Item " \o id), description |-> S(""), status |-> status,
    estimated_hours |-> N(1), completed_at |-> Undefined, notes |-> S("") ]

Progress(milestones, items) ==
  [ project |-> [ name |-> S("Ship it"), version |-> S("0.1.0"),
                  status |-> S("in_progress"), current_milestone |-> S("") ],
    milestones |-> milestones,
    tasks |-> items,
    progress |-> [ planning |-> N(0), implementation |-> N(0), testing |-> N(0),
                   documentation |-> N(0), overall |-> N(0) ] ]

Executions ==
  { [api_messages |-> <<>>, task_messages |-> <<>>, tool_results |-> <<>>],
    [api_messages |-> <<S("secret prompt")>>, task_messages |-> <<S("hello")>>,
     tool_results |-> <<S("rm -rf /tmp/x: ok")>>],
    [api_messages |-> <<S("secret prompt")>>, task_messages |-> <<>>,
     tool_results |-> <<>>] }

Metadatas ==
  { Undefined,
    [conversation_id |-> S("c1"), parent_task_id |-> Undefined, tags |-> <<S("q4")>>] }

Progresses ==
  { Progress(<<>>, <<>>),
    Progress(<<Milestone("m1", "in_progress")>>,
             [m \in {"m1"} |-> <<TaskItem("i1", "not_started")>>]) }

Tasks ==
  { [ id |-> S("t1"), user_id |-> S("u1"), title |-> S("Ship it"),
      description |-> S(""), status |-> st,
      created_at |-> S("2026-01-01T00:00:00Z"), updated_at |-> S("2026-01-01T00:00:00Z"),
      started_at |-> Undefined, completed_at |-> Undefined,
      machine_id |-> S("default"), working_directory |-> S("/work"),
      progress |-> pr, execution |-> ex,
      config |-> [system_prompt |-> S(""), auto_approve |-> TRUE,
                  max_iterations |-> N(500)],
      metadata |-> md ] :
      st \in {S("not_started"), S("in_progress")}, pr \in Progresses,
      ex \in Executions, md \in Metadatas }

\* toTaskApiResponse(task) is called
callToTaskApiResponse(task) ==
  /\ conv = [fn |-> "none"]
  /\ conv' = [fn |-> "toTaskApiResponse", arg |-> task, out |-> toTaskApiResponse(task)]
  /\ UNCHANGED <<store, worker, fbClient, fbApps, serviceDb, fbCall>>

\* toTaskListApiResponse(tasks) is called
callToTaskListApiResponse(tasks) ==
  /\ conv = [fn |-> "none"]
  /\ conv' = [ fn |-> "toTaskListApiResponse", arg |-> tasks,
               out |-> toTaskListApiResponse(tasks) ]
  /\ UNCHANGED <<store, worker, fbClient, fbApps, serviceDb, fbCall>>

----------------------------------------------------------------------------
\* The specification of the converters: toTaskError and the API response
\* transformers, called on the values above

\* The variables of the HTTP client stay as they are before any client is made
HttpUnused ==
  /\ client = NoClient
  /\ window = Undefined
  /\ made = Pending
  /\ app = [i \in Reqs |-> NoApp]
  /\ jwtLoaded = FALSE
  /\ pc = [i \in Reqs |-> "idle"]
  /\ call = [i \in Reqs |-> NoCall]
  /\ headers = [i \in Reqs |-> NoHeaders]
  /\ auth = [i \in Reqs |-> "none"]
  /\ fetchCalls = [i \in Reqs |-> <<>>]
  /\ fetchResult = [i \in Reqs |-> Pending]
  /\ result = [i \in Reqs |-> Pending]

InitConvert ==
  /\ HttpUnused
  /\ conv = [fn |-> "none"]
  /\ store = Unloaded
  /\ worker = Unloaded
  /\ fbClient = Unloaded
  /\ fbApps = Unloaded
  /\ serviceDb = Unloaded
  /\ fbCall = Unloaded

NextConvert ==
  /\ UNCHANGED httpVars
  /\   \/ \E error \in ThrownValues : callToTaskError(error)
       \/ callToTaskErrorAgain
       \/ \E task \in Tasks : callToTaskApiResponse(task)
       \/ \E t1, t2 \in Tasks : callToTaskListApiResponse(<<t1, t2>>)
       \/ convRelease

SpecConvert == InitConvert /\ [][NextConvert]_vars

----------------------------------------------------------------------------
\* TaskDatabaseService: the operations that read the task, change it in
\* memory and write the changed part back

\* The two callers that use the service at the same time
Callers == {"A", "B"}

\* array.findIndex(x => x.id === id), counted from 1; 0 when there is none
\* (the source's -1)
findIndex(array, id) ==
  LET hits == {k \in 1..Len(array) : array[k].id = id}
  IN  IF hits = {} THEN 0 ELSE CHOOSE k \in hits : \A j \in hits : k <= j

\* array.splice(index, 1)
splice(array, index) ==
  SubSeq(array, 1, index - 1) \o SubSeq(array, index + 1, Len(array))

\* { ...object, ...updates }
Spread(object, updates) == updates @@ object

\* One entry of the argument of DocumentReference.update: a field path and
\* the value written there
Field(path, value) == [path |-> path, value |-> value]

\* DocumentReference.update(fields) on the stored task: 'progress.milestones'
\* and 'progress.tasks' are replaced whole, `progress.tasks.${milestoneId}`
\* replaces (or adds) the items of one milestone
update(doc, fields) ==
  LET At(path) == {k \in DOMAIN fields : fields[k].path = path}
      ValueAt(path) == fields[CHOOSE k \in At(path) : TRUE].value
      whole == IF At(<<"progress", "tasks">>) # {}
                 THEN ValueAt(<<"progress", "tasks">>) ELSE doc.tasks
      nested == {fields[k].path[3] : k \in {j \in DOMAIN fields : Len(fields[j].path) = 3}}
  IN  [ doc EXCEPT
          !.milestones = IF At(<<"progress", "milestones">>) # {}
                           THEN ValueAt(<<"progress", "milestones">>) ELSE @,
          !.tasks = [ m \in DOMAIN whole \cup nested |->
                        IF m \in nested THEN ValueAt(<<"progress", "tasks", m>>)
                        ELSE whole[m] ] ]

\* getTask(userId, taskId): null when the document does not exist
getTask(doc) == IF doc.exists THEN doc ELSE Null

\* The five operations, from the task they read to the fields they write, or
\* to the Error they throw
updateMilestone(task, milestoneId, updates) ==
  IF task = Null THEN Raised(Err("Task not found"))
  ELSE LET milestoneIndex == findIndex(task.milestones, milestoneId)
       IN  IF milestoneIndex = 0 THEN Raised(Err("Milestone not found"))
           ELSE Returned(<< Field(<<"progress", "milestones">>,
                  [task.milestones EXCEPT ![milestoneIndex] = Spread(@, updates)]) >>)

removeMilestone(task, milestoneId) ==
  IF task = Null THEN Raised(Err("Task not found"))
  ELSE LET milestoneIndex == findIndex(task.milestones, milestoneId)
       IN  IF milestoneIndex = 0 THEN Raised(Err("Milestone not found"))
           ELSE Returned(<< Field(<<"progress", "milestones">>,
                                 splice(task.milestones, milestoneIndex)),
                           Field(<<"progress", "tasks">>,
                                 [m \in DOMAIN task.tasks \ {milestoneId} |->
                                    task.tasks[m]]) >>)

createTaskItem(task, milestoneId, taskItem) ==
  IF task = Null THEN Raised(Err("Task not found"))
  ELSE LET items == IF milestoneId \in DOMAIN task.tasks
                      THEN task.tasks[milestoneId] ELSE <<>>
       IN  Returned(<< Field(<<"progress", "tasks">>,
                            (milestoneId :> Append(items, taskItem)) @@ task.tasks) >>)

updateTaskItem(task, milestoneId, taskItemId, updates) ==
  IF task = Null THEN Raised(Err("Task not found"))
  ELSE IF milestoneId \notin DOMAIN task.tasks THEN Raised(Err("Milestone not found"))
  ELSE LET items == task.tasks[milestoneId]
           itemIndex == findIndex(items, taskItemId)
       IN  IF itemIndex = 0 THEN Raised(Err("Task item not found"))
           ELSE Returned(<< Field(<<"progress", "tasks", milestoneId>>,
                  [items EXCEPT ![itemIndex] = Spread(@, updates)]) >>)

removeTaskItem(task, milestoneId, taskItemId) ==
  IF task = Null THEN Raised(Err("Task not found"))
  ELSE IF milestoneId \notin DOMAIN task.tasks THEN Raised(Err("Milestone not found"))
  ELSE LET items == task.tasks[milestoneId]
           itemIndex == findIndex(items, taskItemId)
       IN  IF itemIndex = 0 THEN Raised(Err("Task item not found"))
           ELSE Returned(<< Field(<<"progress", "tasks", milestoneId>>,
                                 splice(items, itemIndex)) >>)

\* A call of one of the five: what it does with the task it read
Fields(o, task) ==
  CASE o.name = "updateMilestone" -> updateMilestone(task, o.milestoneId, o.updates)
    [] o.name = "removeMilestone" -> removeMilestone(task, o.milestoneId)
    [] o.name = "createTaskItem" -> createTaskItem(task, o.milestoneId, o.taskItem)
    [] o.name = "updateTaskItem" ->
         updateTaskItem(task, o.milestoneId, o.taskItemId, o.updates)
    [] o.name = "removeTaskItem" -> removeTaskItem(task, o.milestoneId, o.taskItemId)

\* The calls the callers make
Completed == [status |-> "completed"]
Operations ==
  { [name |-> "updateMilestone", milestoneId |-> m, updates |-> Completed] :
      m \in {"m1", "m2", "m9"} } \cup
  { [name |-> "removeMilestone", milestoneId |-> m] : m \in {"m1", "m2"} } \cup
  { [name |-> "createTaskItem", milestoneId |-> m,
     taskItem |-> TaskItem("i9", "not_started")] : m \in {"m1", "m2"} } \cup
  { [name |-> "updateTaskItem", milestoneId |-> "m1", taskItemId |-> i,
     updates |-> Completed] : i \in {"i1", "i2", "i8"} } \cup
  { [name |-> "removeTaskItem", milestoneId |-> "m1", taskItemId |-> i] :
      i \in {"i1", "i2"} }

\* The stored task documents the callers start from: none, or a task with two
\* milestones, the second with or without items
Documents ==
  { [exists |-> FALSE],
    [exists |-> TRUE,
     milestones |-> <<Milestone("m1", "in_progress"), Milestone("m2", "not_started")>>,
     tasks |-> [m \in {"m1"} |->
                  <<TaskItem("i1", "not_started"), TaskItem("i2", "not_started")>>]],
    [exists |-> TRUE,
     milestones |-> <<Milestone("m1", "in_progress"), Milestone("m2", "not_started")>>,
     tasks |-> [m \in {"m1", "m2"} |->
                  IF m = "m1"
                    THEN <<TaskItem("i1", "not_started"), TaskItem("i2", "not_started")>>
                    ELSE <<TaskItem("i3", "not_started")>>]] }

IdleWorker == [pc |-> "idle"]

\* The two callers call the service together (neither awaits the other), on
\* one of the documents above
callOperations(oA, oB) ==
  /\ \A c \in Callers : worker[c].pc = "idle"
  /\ store \in Documents
  /\ worker' = [c \in Callers |->
       [ pc |-> "getTask", operation |-> IF c = "A" THEN oA ELSE oB,
         base |-> store, fields |-> Pending, result |-> Pending ]]
  /\ UNCHANGED <<conv, store, fbClient, fbApps, serviceDb, fbCall>>

\* `await this.getTask(userId, taskId)` gives the caller the stored task; the
\* operation changes its copy, or throws
taskRead(c) ==
  /\ worker[c].pc = "getTask"
  /\ LET fields == Fields(worker[c].operation, getTask(store))
     IN  worker' = [worker EXCEPT ![c] =
           IF fields.kind = "raised"
             THEN [@ EXCEPT !.pc = "done", !.result = fields]
             ELSE [@ EXCEPT !.pc = "update", !.fields = fields.value]]
  /\ UNCHANGED <<conv, store, fbClient, fbApps, serviceDb, fbCall>>

\* `await db.doc(taskPath).update({...})` is applied to the stored task
taskUpdated(c) ==
  /\ worker[c].pc = "update"
  /\ store' = update(store, worker[c].fields)
  /\ worker' = [worker EXCEPT ![c].pc = "done", ![c].result = Returned(Undefined)]
  /\ UNCHANGED <<conv, fbClient, fbApps, serviceDb, fbCall>>

\* Both callers have their results
workersRelease ==
  /\ \A c \in Callers : worker[c].pc = "done"
  /\ worker' = [c \in Callers |-> IdleWorker]
  /\ UNCHANGED <<conv, store, fbClient, fbApps, serviceDb, fbCall>>

InitProgress ==
  /\ HttpUnused
  /\ conv = Unloaded
  /\ store \in Documents
  /\ worker = [c \in Callers |-> IdleWorker]
  /\ fbClient = Unloaded
  /\ fbApps = Unloaded
  /\ serviceDb = Unloaded
  /\ fbCall = Unloaded

NextProgress ==
  /\ UNCHANGED httpVars
  /\   \/ \E oA, oB \in Operations : callOperations(oA, oB)
       \/ \E c \in Callers : taskRead(c)
       \/ \E c \in Callers : taskUpdated(c)
       \/ workersRelease

SpecProgress == InitProgress /\ [][NextProgress]_vars

----------------------------------------------------------------------------
\* FirebaseClient: connect, disconnect, isConnected and a data operation

\* `task-mcp-${this.userId}`
appName(userId) == "task-mcp-" \o userId

\* An App of the given name, and the Firestore that getFirestore gives for it
App(name) == [t |-> "object", inst |-> "App", name |-> name]
Firestore(name) == [t |-> "object", inst |-> "Firestore", app |-> name]

\* The service account texts of the configurations: a complete account, an
\* object that is no account, and text that is no JSON
ValidAccount == S("{\"project_id\":\"p\",\"client_email\":\"e\",\"private_key\":\"k\"}")
EmptyAccount == S("{}")
BrokenJson == S("{")
AccountPath == S("/secrets/account.json")

\* JSON.parse(text)
JSONparse(text) ==
  IF text = BrokenJson
    THEN Raised(Err("Unexpected end of JSON input"))
    ELSE Returned(text)

\* cert(serviceAccount): the parsed object must be a complete account
cert(serviceAccount) ==
  IF serviceAccount = EmptyAccount
    THEN Raised(Err("Service account object must contain a string \"project_id\" property."))
    ELSE Returned([t |-> "object", inst |-> "Credential", from |-> serviceAccount])

\* connect(), lines 1078-1097: the credential, from the configuration first
\* and from the environment second, or the error thrown on the way
credentialOf(config, env) ==
  IF Truthy(config.serviceAccountJson) THEN
    LET serviceAccount == JSONparse(config.serviceAccountJson)
    IN  IF serviceAccount.kind = "raised" THEN serviceAccount
        ELSE cert(serviceAccount.value)
  ELSE IF Truthy(config.serviceAccountPath) THEN cert(config.serviceAccountPath)
  ELSE IF Truthy(env.FIREBASE_SERVICE_ACCOUNT_JSON) THEN
    LET serviceAccount == JSONparse(env.FIREBASE_SERVICE_ACCOUNT_JSON)
    IN  IF serviceAccount.kind = "raised" THEN serviceAccount
        ELSE cert(serviceAccount.value)
  ELSE IF Truthy(env.FIREBASE_SERVICE_ACCOUNT_PATH) THEN
    cert(env.FIREBASE_SERVICE_ACCOUNT_PATH)
  ELSE Raised(Err("Firebase service account credentials required"))

\* The `catch` of connect()
failedToInitialize(error) ==
  Raised(Err("Failed to initialize Firebase: " \o messageOf(error).v))

\* isConnected()
isConnected(self) == self.app # Null /\ self.db # Null

\* connect() on the client `self`, with the registered apps and the db of
\* TaskDatabaseService; firestoreThrows says whether getFirestore throws for
\* the app (an app registered with a credential Firestore refuses, or the
\* Firestore library failing to load).  The method has no await: it runs
\* to its end in one step.
connect(self, apps, db, firestoreThrows) ==
  LET name == appName(self.userId)
      unchanged == [self |-> self, apps |-> apps, db |-> db]
  IN  IF self.app # Null THEN unchanged @@ [result |-> Returned(Undefined)]
      ELSE IF name \in apps THEN
        IF firestoreThrows
          THEN [ self |-> [self EXCEPT !.app = App(name)], apps |-> apps, db |-> db,
                 result |-> failedToInitialize(Err("Firestore unavailable")) ]
          ELSE [ self |-> [self EXCEPT !.app = App(name), !.db = Firestore(name)],
                 apps |-> apps, db |-> Firestore(name),
                 result |-> Returned(Undefined) ]
      ELSE
        LET credential == credentialOf(self.config, self.env)
        IN  IF credential.kind = "raised"
              THEN unchanged @@ [result |-> failedToInitialize(credential.value)]
            ELSE IF firestoreThrows
              THEN [ self |-> [self EXCEPT !.app = App(name)],
                     apps |-> apps \cup {name}, db |-> db,
                     result |-> failedToInitialize(Err("Firestore unavailable")) ]
            ELSE [ self |-> [self EXCEPT !.app = App(name), !.db = Firestore(name)],
                   apps |-> apps \cup {name}, db |-> Firestore(name),
                   result |-> Returned(Undefined) ]

\* The configurations and environments of the client (the constructor has
\* accepted the userId)
FbConfigs ==
  [ userId : {S("u1")},
    serviceAccountJson : {Undefined, ValidAccount, EmptyAccount, BrokenJson},
    serviceAccountPath : {Undefined, AccountPath} ]
FbEnvs ==
  [ FIREBASE_SERVICE_ACCOUNT_JSON : {Undefined, ValidAccount},
    FIREBASE_SERVICE_ACCOUNT_PATH : {Undefined, AccountPath} ]

\* new FirebaseClient(config)
FirebaseClient(config, env) ==
  [ app |-> Null, db |-> Null, userId |-> config.userId.v, config |-> config,
    env |-> env ]

NoFbCall == [method |-> "none"]

\* await client.connect()
callConnect ==
  /\ fbCall = NoFbCall
  /\ \E firestoreThrows \in BOOLEAN :
       LET after == connect(fbClient, fbApps, serviceDb, firestoreThrows)
       IN  /\ fbClient' = after.self
           /\ fbApps' = after.apps
           /\ serviceDb' = after.db
           /\ fbCall' = [method |-> "connect", pc |-> "done", result |-> after.result]
  /\ UNCHANGED <<conv, store, worker>>

\* await client.disconnect(), up to `await deleteApp(this.app)`
callDisconnect ==
  /\ fbCall = NoFbCall
  /\ fbCall' = IF fbClient.app # Null
                 THEN [method |-> "disconnect", pc |-> "deleteApp", result |-> Pending]
                 ELSE [method |-> "disconnect", pc |-> "done",
                       result |-> Returned(Undefined)]
  /\ UNCHANGED <<conv, store, worker, fbClient, fbApps, serviceDb>>

\* deleteApp resolves: the app is unregistered, app and db are cleared
deleteAppResolves ==
  /\ fbCall.method = "disconnect" /\ fbCall.pc = "deleteApp"
  /\ fbClient.app.name \in fbApps
  /\ fbApps' = fbApps \ {fbClient.app.name}
  /\ fbClient' = [fbClient EXCEPT !.app = Null, !.db = Null]
  /\ fbCall' = [fbCall EXCEPT !.pc = "done", !.result = Returned(Undefined)]
  /\ UNCHANGED <<conv, store, worker, serviceDb>>

\* deleteApp rejects (always when the app is no longer registered): the two
\* assignments after it do not run
deleteAppRejects ==
  /\ fbCall.method = "disconnect" /\ fbCall.pc = "deleteApp"
  /\ fbCall' = [fbCall EXCEPT !.pc = "done",
                              !.result = Raised(Err("The app could not be deleted"))]
  /\ UNCHANGED <<conv, store, worker, fbClient, fbApps, serviceDb>>

\* Another holder of the same named app deletes it (getApps() hands the app
\* to every caller)
appDeletedElsewhere ==
  /\ fbCall = NoFbCall
  /\ fbClient.app # Null
  /\ fbClient.app.name \in fbApps
  /\ fbApps' = fbApps \ {fbClient.app.name}
  /\ UNCHANGED <<conv, store, worker, fbClient, serviceDb, fbCall>>

\* await client.getTask(taskId): connect() when isConnected() is false, then
\* TaskDatabaseService.getTask, whose getDb() falls back to the default
\* Firestore when TaskDatabaseService has no db
callGetTask ==
  /\ fbCall = NoFbCall
  /\ \E firestoreThrows \in BOOLEAN :
       LET after == IF isConnected(fbClient)
                      THEN [self |-> fbClient, apps |-> fbApps, db |-> serviceDb,
                            result |-> Returned(Undefined)]
                      ELSE connect(fbClient, fbApps, serviceDb, firestoreThrows)
       IN  /\ fbClient' = after.self
           /\ fbApps' = after.apps
           /\ IF after.result.kind = "raised"
                THEN /\ serviceDb' = after.db
                     /\ fbCall' = [method |-> "getTask", pc |-> "done",
                                   result |-> after.result, delegated |-> FALSE,
                                   connected |-> isConnected(after.self)]
                ELSE /\ serviceDb' = IF after.db = Null THEN Firestore("[DEFAULT]")
                                     ELSE after.db
                     /\ fbCall' = [method |-> "getTask", pc |-> "done",
                                   result |-> Returned(Null), delegated |-> TRUE,
                                   connected |-> isConnected(after.self)]
  /\ UNCHANGED <<conv, store, worker>>

\* The caller has the result
fbRelease ==
  /\ fbCall # NoFbCall /\ fbCall.pc = "done"
  /\ fbCall' = NoFbCall
  /\ UNCHANGED <<conv, store, worker, fbClient, fbApps, serviceDb>>

InitFirebase ==
  /\ HttpUnused
  /\ conv = Unloaded
  /\ store = Unloaded
  /\ worker = Unloaded
  /\ \E config \in FbConfigs, env \in FbEnvs : fbClient = FirebaseClient(config, env)
  /\ fbApps \in {{}, {appName("u1")}}
  /\ serviceDb = Null
  /\ fbCall = NoFbCall

NextFirebase ==
  /\ UNCHANGED httpVars
  /\   \/ callConnect
       \/ callDisconnect
       \/ deleteAppResolves
       \/ deleteAppRejects
       \/ appDeletedElsewhere
       \/ callGetTask
       \/ fbRelease

SpecFirebase == InitFirebase /\ [][NextFirebase]_vars

----------------------------------------------------------------------------
\* Properties of HttpClient.request and of the SdkResponse helpers

IsRequest(i) == call[i].op = "request"
RequestDone(i) == IsRequest(i) /\ pc[i] = "done"
\* The Response the invocation's fetch gave, once it has one
GotResponse(i) == IsRequest(i) /\ fetchResult[i].kind = "returned"
ResponseOf(i) == fetchResult[i].value
\* The SdkResponse the invocation returned
Outcome(i) == result[i].value
\* A field that holds a value: neither null nor undefined
Populated(v) == ~Nullish(v)

\* C1: HttpClient.request never raises: whatever the credential resolver and
\* the network do, no invocation of request ends with a thrown value (a
\* rejected promise).
C1_RequestNeverRaises ==
  \A i \in Reqs : IsRequest(i) => result[i].kind # "raised"

\* C2: when credential resolution fails for a request that carries an acting
\* identity, request returns a failure whose error has code 'auth_error' and
\* status 0.
C2_AuthFailureIsAuthError ==
  \A i \in Reqs :
    (IsRequest(i) /\ auth[i] = "failed") =>
      IF result[i].kind = "returned"
        THEN /\ Outcome(i).data = Null
             /\ Get(Outcome(i).error, "code") = S("auth_error")
             /\ Get(Outcome(i).error, "status") = N(0)
        ELSE FALSE

\* C3: credential resolution completes before the network call of the same
\* request starts, and a request whose resolution failed makes no network
\* call: fetch has been called only by invocations that needed no credential
\* or whose credential is resolved.
C3_ResolutionBeforeFetch ==
  \A i \in Reqs :
    /\ fetchCalls[i] # <<>> => auth[i] \in {"none", "resolved"}
    /\ auth[i] \in {"pending", "failed"} => fetchCalls[i] = <<>>

C3_Witness ==
  \E i \in Reqs :
    /\ RequestDone(i)
    /\ auth[i] = "failed"
    /\ ~Truthy(client.config.getAuthToken)
    /\ fetchCalls[i] = <<>>

\* C4: when fetch throws, request returns a failure with data null, code
\* 'network_error', status 0 and the message of the thrown exception.
C4_FetchThrowsIsNetworkError ==
  \A i \in Reqs :
    (IsRequest(i) /\ fetchResult[i].kind = "raised") =>
      /\ pc[i] = "done"
      /\ result[i] = Returned(
           [ data |-> Null,
             error |-> Obj([ code |-> S("network_error"),
                             message |-> Get(fetchResult[i].value, "message"),
                             status |-> N(0) ]) ])

C4_Witness ==
  \E i \in Reqs :
    /\ RequestDone(i)
    /\ fetchResult[i] = Raised(Err("getaddrinfo ENOTFOUND api.example.com"))
    /\ Get(Outcome(i).error, "message") = S("getaddrinfo ENOTFOUND api.example.com")

\* C5: for every non-2xx response, request returns a failure (data null)
\* whose error.status is the response's HTTP status, whatever the body is.
C5_StatusIsHttpStatus ==
  \A i \in Reqs :
    (RequestDone(i) /\ GotResponse(i) /\ ~(ResponseOf(i).status \in 200..299)) =>
      /\ result[i].kind = "returned"
      /\ Outcome(i).data = Null
      /\ Populated(Outcome(i).error)
      /\ Get(Outcome(i).error, "status") = N(ResponseOf(i).status)

C5_Witness ==
  \E i \in Reqs :
    /\ RequestDone(i)
    /\ GotResponse(i)
    /\ ResponseOf(i).status = 409
    /\ ResponseOf(i).body.kind = "json"
    /\ Get(ResponseOf(i).body.value, "status") = N(999)
    /\ Get(Outcome(i).error, "status") = N(409)

\* The code field of a response's JSON body, when the body parses to an
\* object that has one (a null code counts as none)
BodyCode(res) ==
  IF res.body.kind = "json" /\ res.body.value.t = "object"
       /\ "code" \in DOMAIN res.body.value.f
    THEN res.body.value.f["code"]
    ELSE Null

\* The status-derived default of section 4.3, step 5
DefaultCode(status) ==
  IF status = 400 THEN "validation"
  ELSE IF status = 401 THEN "unauthorized"
  ELSE IF status = 403 THEN "forbidden"
  ELSE IF status = 404 THEN "not_found"
  ELSE IF status = 409 THEN "conflict"
  ELSE IF status = 429 THEN "rate_limited"
  ELSE IF status = 500 THEN "internal"
  ELSE "unknown"

\* C6: for every non-2xx response, error.code is the code of the JSON error
\* body when it has one, and otherwise the status-derived default: 400
\* validation, 401 unauthorized, 403 forbidden, 404 not_found, 409 conflict,
\* 429 rate_limited, 500 internal, any other status unknown.
C6_CodeFromBodyOrStatus ==
  \A i \in Reqs :
    (RequestDone(i) /\ GotResponse(i) /\ ~(ResponseOf(i).status \in 200..299)) =>
      /\ result[i].kind = "returned"
      /\ Get(Outcome(i).error, "code") =
           IF BodyCode(ResponseOf(i)) # Null
             THEN BodyCode(ResponseOf(i))
             ELSE S(DefaultCode(ResponseOf(i).status))

C6_Witness ==
  \E i \in Reqs :
    /\ RequestDone(i)
    /\ GotResponse(i)
    /\ ResponseOf(i).status = 429
    /\ ResponseOf(i).body = Malformed
    /\ Get(Outcome(i).error, "code") = S("rate_limited")

\* C7: for every 2xx response that carries a parseable JSON body, request
\* returns a success with error null and data equal to the parsed body.
C7_SuccessCarriesParsedBody ==
  \A i \in Reqs :
    ( /\ RequestDone(i)
      /\ GotResponse(i)
      /\ ResponseOf(i).status \in 200..299
      /\ ResponseOf(i).body.kind = "json" ) =>
      result[i] = Returned([data |-> ResponseOf(i).body.value, error |-> Null])

C7_Witness ==
  \E i \in Reqs :
    /\ RequestDone(i)
    /\ GotResponse(i)
    /\ ResponseOf(i).status = 201
    /\ Outcome(i).data = Obj([id |-> S("w2"), name |-> S("Gadget")])
    /\ Outcome(i).error = Null

\* C8: for every 2xx response that is a 204 or has an empty body, request
\* returns a success with no payload (error null, data absent).
C8_EmptySuccessHasNoPayload ==
  \A i \in Reqs :
    ( /\ RequestDone(i)
      /\ GotResponse(i)
      /\ ResponseOf(i).status \in 200..299
      /\ (ResponseOf(i).status = 204 \/ ResponseOf(i).body = NoBody) ) =>
      /\ result[i].kind = "returned"
      /\ Outcome(i).error = Null
      /\ Nullish(Outcome(i).data)

\* C9: when the body of a 2xx response fails to parse as JSON, request
\* returns a failure whose error.code is 'internal', and does not raise.
C9_ParseFailureIsInternal ==
  \A i \in Reqs :
    ( /\ RequestDone(i)
      /\ GotResponse(i)
      /\ ResponseOf(i).status \in 200..299
      /\ ResponseOf(i).status # 204
      /\ ResponseOf(i).body = Malformed ) =>
      /\ result[i].kind = "returned"
      /\ Outcome(i).data = Null
      /\ Get(Outcome(i).error, "code") = S("internal")

\* C10 as stated: every Outcome produced by ok, fail, trySdk or request has
\* exactly one of data and error populated: never both, never neither.
C10_ExactlyOneBranch ==
  \A i \in Reqs :
    result[i].kind = "returned" =>
      (Populated(Outcome(i).data) # Populated(Outcome(i).error))

\* C10 as amended: no Outcome produced by ok, fail, trySdk or request has both
\* data and error populated; both are null only on a success without a
\* payload, which for request is a 204 response or a body that is JSON null.
C10_NeverBothBranches ==
  \A i \in Reqs :
    result[i].kind = "returned" =>
      /\ ~(Populated(Outcome(i).data) /\ Populated(Outcome(i).error))
      /\ (IsRequest(i) /\ ~Populated(Outcome(i).data) /\ ~Populated(Outcome(i).error)) =>
           /\ GotResponse(i)
           /\ ResponseOf(i).status \in 200..299
           /\ (ResponseOf(i).status = 204 \/ ResponseOf(i).body = Json(Null))

C10_Witness ==
  \E i \in Reqs :
    /\ RequestDone(i)
    /\ GotResponse(i)
    /\ ResponseOf(i).status = 204
    /\ result[i] = Returned([data |-> Null, error |-> Null])

----------------------------------------------------------------------------
\* Properties of the client tiers (under SpecTiers)

Compound(i) == app[i].op \in {"createAndPublish", "retract", "searchAsGhost"}
Atomic(i) == app[i].op = "atomic"
\* The number of http.request calls the method's code contains
Steps(op) == IF op = "createAndPublish" THEN 3 ELSE 2
\* An awaited http.request gave a failure SdkResponse
IsFailure(out) == out.kind = "returned" /\ Truthy(out.value.error)
IsSuccess(out) == out.kind = "returned" /\ ~Truthy(out.value.error)
FailedSteps(outs) == {k \in 1..Len(outs) : IsFailure(outs[k])}
\* The step k whose http.request was the first to give a failure
FirstFailure(outs) == CHOOSE k \in FailedSteps(outs) : \A j \in FailedSteps(outs) : k <= j

\* C11: compound fail-fast. When step k of createAndPublish, retract or
\* searchAsGhost is the first whose http.request gives a failure, the method
\* has called http.request exactly k times and never calls it again, and what
\* it returns is a failure carrying exactly the error of step k.
C11_CompoundFailFast ==
  \A i \in Reqs :
    (Compound(i) /\ FailedSteps(app[i].outs) # {}) =>
      LET k == FirstFailure(app[i].outs)
      IN  /\ app[i].calls = k
          /\ Len(app[i].outs) = k
          /\ app[i].phase = "done" =>
               /\ app[i].result.kind = "returned"
               /\ app[i].result.value.data = Null
               /\ app[i].result.value.error = app[i].outs[k].value.error

\* createAndPublish has returned after its second step, the publish, failed
C11_Witness ==
  \E i \in Reqs :
    /\ app[i].op = "createAndPublish"
    /\ app[i].phase = "done"
    /\ Len(app[i].outs) = 2
    /\ IsSuccess(app[i].outs[1])
    /\ IsFailure(app[i].outs[2])
    /\ app[i].calls = 2
    /\ app[i].result.kind = "returned"
    /\ app[i].result.value.error = app[i].outs[2].value.error

\* C12: when every step of a compound method has run and every step before
\* the last succeeded, the method returns the SdkResponse of its last
\* http.request unchanged, be it a success or a failure.
C12_ReturnsFinalOutcome ==
  \A i \in Reqs :
    ( /\ Compound(i)
      /\ app[i].phase = "done"
      /\ Len(app[i].outs) = Steps(app[i].op)
      /\ \A k \in 1..Len(app[i].outs) - 1 : IsSuccess(app[i].outs[k])
      /\ app[i].outs[Len(app[i].outs)].kind = "returned" )
    => app[i].result = app[i].outs[Len(app[i].outs)]

\* retract has returned the failure of its confirm call, after the retract
\* call succeeded
C12_Witness ==
  \E i \in Reqs :
    /\ app[i].op = "retract"
    /\ app[i].phase = "done"
    /\ Len(app[i].outs) = 2
    /\ IsSuccess(app[i].outs[1])
    /\ IsFailure(app[i].outs[2])
    /\ app[i].result = app[i].outs[2]

\* C13: no compound method raises: whatever SdkResponses its http.request
\* calls give, createAndPublish, retract and searchAsGhost end by returning.
C13_CompoundNeverRaises ==
  \A i \in Reqs :
    (Compound(i) /\ app[i].phase = "done") => app[i].result.kind = "returned"

\* C14: the factories check the environment first. Where window is defined
\* every factory call raises, no HttpClient exists and no client is returned;
\* where it is not, no factory call raises and the client a factory returned
\* holds the HttpClient it constructed.
C14_ServerSideOnly ==
  /\ window # Undefined =>
       /\ client = NoClient
       /\ made \in {Pending, Raised(Err("Client SDKs are server-side only."))}
  /\ window = Undefined =>
       /\ made.kind # "raised"
       /\ made.kind = "returned" =>
            /\ client # NoClient
            /\ \A r \in DOMAIN made.value : made.value[r].http = client

\* A factory was called in a browser and raised
C14_Witness ==
  /\ window # Undefined
  /\ made.kind = "raised"
  /\ client = NoClient

----------------------------------------------------------------------------
\* Properties of credential resolution and of the SdkResponse helpers
\* (under Spec)

\* Neither getAuthToken nor auth is in the client's configuration
Unconfigured == client.config.getAuthToken = Undefined /\ client.config.auth = Undefined

\* C16: with neither credential strategy configured, every request reaches
\* fetch, exactly once and with no Authorization header, the invocation
\* returns, and a response that is a success gives a success SdkResponse.
C16_NoCredentialStillSent ==
  \A i \in Reqs :
    (IsRequest(i) /\ Unconfigured) =>
      /\ pc[i] \in {"fetch", "parseError", "json", "done"} =>
           /\ Len(fetchCalls[i]) = 1
           /\ "Authorization" \notin DOMAIN fetchCalls[i][1].headers
      /\ pc[i] = "done" =>
           /\ result[i].kind = "returned"
           /\ ( /\ GotResponse(i)
                /\ resOk(ResponseOf(i))
                /\ json(ResponseOf(i)).kind = "returned" )
              => Outcome(i).error = Null

\* A request for a user, on a client with no strategy, returned the parsed
\* body of its response
C16_Witness ==
  \E i \in Reqs :
    /\ Unconfigured
    /\ RequestDone(i)
    /\ Truthy(OptGet(call[i].options, "userId"))
    /\ Len(fetchCalls[i]) = 1
    /\ "Authorization" \notin DOMAIN fetchCalls[i][1].headers
    /\ result[i].kind = "returned"
    /\ Outcome(i).error = Null
    /\ Populated(Outcome(i).data)

\* Both getAuthToken and auth.serviceToken are in the client's configuration
BothConfigured ==
  /\ Truthy(client.config.getAuthToken)
  /\ Truthy(OptGet(client.config.auth, "serviceToken"))

\* C17: the two credential strategies are mutually exclusive: no client whose
\* configuration has both getAuthToken and auth.serviceToken ever resolves a
\* credential for a request.
C17_StrategiesExclusive ==
  \A i \in Reqs :
    (IsRequest(i) /\ auth[i] = "resolved") => ~BothConfigured

\* C18: throwOnError is the only operation of an SdkResponse that raises. On
\* the response of fail(e) it throws exactly e; on the response of ok(v) it
\* returns v; ok and fail themselves return, and their data and error fields
\* are plain values.
C18_ThrowOnErrorOnly ==
  \A i \in Reqs :
    /\ (call[i].op = "ok" /\ pc[i] = "done") =>
         /\ result[i].kind = "returned"
         /\ Outcome(i).data = call[i].arg
         /\ Outcome(i).error = Null
         /\ call[i].unwrapped \in {Pending, Returned(call[i].arg)}
    /\ (call[i].op = "fail" /\ pc[i] = "done") =>
         /\ result[i].kind = "returned"
         /\ Outcome(i).data = Null
         /\ Outcome(i).error = call[i].arg
         /\ call[i].unwrapped \in {Pending, Raised(call[i].arg)}

\* throwOnError() was called on the response of fail(e) and threw e
C18_Witness ==
  \E i \in Reqs :
    /\ call[i].op = "fail"
    /\ pc[i] = "done"
    /\ call[i].unwrapped = Raised(call[i].arg)

\* What fn threw has code, status and message
HasErrorShape(v) ==
  v.t = "object" /\ {"code", "status", "message"} \subseteq DOMAIN v.f

\* C19: trySdk never raises. When fn resolves it gives ok(value); when fn
\* throws a value with code, status and message it gives a failure carrying
\* that value; when fn throws anything else it gives a failure whose code is
\* fallbackCode, which is 'internal' when the argument is left out.
C19_TrySdkNeverRaises ==
  \A i \in Reqs :
    (call[i].op = "trySdk" /\ pc[i] = "done") =>
      LET settled == call[i].settled
      IN  /\ result[i].kind = "returned"
          /\ settled.kind = "returned" =>
               /\ Outcome(i).data = settled.value
               /\ Outcome(i).error = Null
               /\ Outcome(i).throwOnError = Returned(settled.value)
          /\ (settled.kind = "raised" /\ HasErrorShape(settled.value)) =>
               /\ Outcome(i).data = Null
               /\ Outcome(i).error = settled.value
          /\ (settled.kind = "raised" /\ ~HasErrorShape(settled.value)) =>
               /\ Outcome(i).data = Null
               /\ Get(Outcome(i).error, "code") = S(call[i].fallbackCode)
               /\ call[i].defaulted => Get(Outcome(i).error, "code") = S("internal")

\* trySdk passed through the RememberError that fn threw
C19_Witness ==
  \E i \in Reqs :
    /\ call[i].op = "trySdk"
    /\ pc[i] = "done"
    /\ call[i].settled.kind = "raised"
    /\ HasErrorShape(call[i].settled.value)
    /\ Outcome(i).error = call[i].settled.value

----------------------------------------------------------------------------
\* Properties of concurrent invocations (under SpecConc)

\* The invocation's acting identity
UserOf(i) == Get(call[i].options, "userId")

\* The Authorization values that stand for a credential resolved for userId
\* under the client's configuration
OwnCredentials(userId) ==
  IF Truthy(client.config.getAuthToken)
    THEN { bearer(tok) : tok \in {tk \in CallbackTokens(userId) : Truthy(tk)} }
    ELSE { bearer(sign(userId, client.config.auth)) }

\* The headers carry no credential, or one resolved for userId
OwnHeaders(hdrs, userId) ==
  "Authorization" \in DOMAIN hdrs => hdrs["Authorization"] \in OwnCredentials(userId)

\* C20: concurrent invocations on one client do not mix. Whatever the
\* interleaving, the headers of an invocation and of each fetch call it makes
\* carry only a credential resolved for its own userId, the fetch call is for
\* its own URL, and what it returns is built from the response to its own
\* fetch call: the parsed body on success, the response's status on failure.
C20_InvocationsIsolated ==
  \A i \in Reqs :
    IsRequest(i) =>
      /\ OwnHeaders(headers[i], UserOf(i))
      /\ \A k \in 1..Len(fetchCalls[i]) :
           /\ OwnHeaders(fetchCalls[i][k].headers, UserOf(i))
           /\ fetchCalls[i][k].url = call[i].url
      /\ (pc[i] = "done" /\ GotResponse(i)) =>
           /\ result[i].kind = "returned"
           /\ ~resOk(ResponseOf(i)) =>
                /\ Outcome(i).data = Null
                /\ Get(Outcome(i).error, "status") = N(ResponseOf(i).status)
           /\ (resOk(ResponseOf(i)) /\ ResponseOf(i).status # 204) =>
                Returned(Outcome(i).data) = json(ResponseOf(i))
           /\ ResponseOf(i).status = 204 => Outcome(i) = dataResponse(Null)

\* Two invocations for different users were in progress together and both
\* have returned, each sent with the credential of its own user and each with
\* the result of its own, different, response
C20_Witness ==
  \E i, j \in Reqs :
    /\ i # j
    /\ RequestDone(i) /\ RequestDone(j)
    /\ UserOf(i) # UserOf(j)
    /\ GotResponse(i) /\ GotResponse(j)
    /\ ResponseOf(i) # ResponseOf(j)
    /\ "Authorization" \in DOMAIN fetchCalls[i][1].headers
    /\ "Authorization" \in DOMAIN fetchCalls[j][1].headers
    /\ fetchCalls[i][1].headers["Authorization"] # fetchCalls[j][1].headers["Authorization"]
    /\ Populated(Outcome(i).data)
    /\ Populated(Outcome(j).error)

----------------------------------------------------------------------------
\* More properties of the client tiers (under SpecTiers)

\* C22: the http.request calls of one compound invocation are strictly
\* sequential. Every call but the one awaited has settled and given its
\* result to the method, so the number of calls made is the number of results
\* received, plus one while a call is in flight; the method never goes on
\* while its call is in flight.
C22_StepsSequential ==
  \A i \in Reqs :
    Compound(i) =>
      /\ \A k \in 1..Len(app[i].outs) : app[i].outs[k].kind \in {"returned", "raised"}
      /\ app[i].phase = "awaiting" =>
           /\ pc[i] # "idle"
           /\ app[i].calls = Len(app[i].outs) + 1
           /\ Len(fetchCalls[i]) <= 1
      /\ app[i].phase # "awaiting" =>
           /\ pc[i] = "idle"
           /\ app[i].calls = Len(app[i].outs)

\* The confirm call of createAndPublish is at the network, after the results
\* of the create and publish calls were received
C22_Witness ==
  \E i \in Reqs :
    /\ app[i].op = "createAndPublish"
    /\ app[i].phase = "awaiting"
    /\ app[i].calls = 3
    /\ Len(app[i].outs) = 2
    /\ pc[i] = "fetch"
    /\ Len(fetchCalls[i]) = 1

----------------------------------------------------------------------------
\* More properties of HttpClient.request (under SpecConc and Spec)

\* C23: no step of any request() invocation, whatever its outcome and
\* however the invocations interleave, changes the client's baseUrl or
\* config: they stay as the constructor set them.
C23_ConfigNeverModified == [][client' = client]_vars

\* Two invocations ran together on one client, one ended by a network failure
\* and the other returned a response's result; the client still is what its
\* constructor made from its configuration
C23_Witness ==
  \E i, j \in Reqs :
    /\ i # j
    /\ RequestDone(i) /\ RequestDone(j)
    /\ fetchResult[i].kind = "raised"
    /\ GotResponse(j)
    /\ client = HttpClient(client.config)
    /\ client.config \in ConcConfigs

----------------------------------------------------------------------------
\* Properties of what goes on the wire (under SpecWire)

\* The argument list of the invocation's fetch call, once it is made
Sent(i) == IsRequest(i) /\ Len(fetchCalls[i]) >= 1
FetchCall(i) == fetchCalls[i][1]

\* C24: whenever options has a body, the fetch call carries
\* JSON.stringify(body); the fetch call has no body only when options has
\* none.
C24_BodySerialized ==
  \A i \in Reqs :
    Sent(i) =>
      LET body == OptGet(call[i].options, "body")
      IN  IF body = Undefined
            THEN FetchCall(i).body = Undefined
            ELSE FetchCall(i).body = stringify(body)

\* The base URL has a path of its own (as in https://api.example.com/v2)
BaseHasPath == Len(client.baseUrl) > 1

\* C25: the stored baseUrl has no trailing slash, and the URL of every fetch
\* call is that baseUrl, followed by the path given to request, followed by
\* the query parameters, each key once with its value.
C25_UrlIsBasePathQuery ==
  /\ client.baseUrl[Len(client.baseUrl)] # "/"
  /\ \A i \in Reqs :
       Sent(i) =>
         LET params == OptGet(call[i].options, "params")
         IN  FetchCall(i).url =
               [ origin |-> Head(client.baseUrl),
                 pathname |-> Tail(client.baseUrl) \o call[i].path,
                 search |-> IF Nullish(params) THEN <<>> ELSE params.f ]

----------------------------------------------------------------------------
\* More properties of credential resolution (under Spec)

\* C26: jsonwebtoken is loaded only by a request that resolves its credential
\* with the service token: a step loads it only when it belongs to a request
\* with an acting identity, on a client with auth.serviceToken and without
\* getAuthToken. So no client with the callback, no client without a
\* strategy and no request without identity ever loads it.
C26_JwtLoadedLazily ==
  [][ jwtLoaded' # jwtLoaded =>
        /\ jwtLoaded'
        /\ ~Truthy(client.config.getAuthToken)
        /\ Truthy(OptGet(client.config.auth, "serviceToken"))
        /\ \E i \in Reqs :
             /\ IsRequest(i)
             /\ pc[i] = "import"
             /\ Truthy(UserOf(i))
             /\ auth'[i] \in {"resolved", "failed"} ]_vars

\* A request signed its credential with the service token: jsonwebtoken is
\* loaded and the fetch call carries the signed token
C26_Witness ==
  \E i \in Reqs :
    /\ jwtLoaded
    /\ Sent(i)
    /\ auth[i] = "resolved"
    /\ ~Truthy(client.config.getAuthToken)
    /\ "Authorization" \in DOMAIN FetchCall(i).headers
    /\ FetchCall(i).headers["Authorization"] = bearer(sign(UserOf(i), client.config.auth))

----------------------------------------------------------------------------
\* More properties of what goes on the wire (under SpecWire)

\* options has a userId that is not the empty string
HasIdentity(i) == Truthy(OptGet(call[i].options, "userId"))

\* C27: the fetch call has the header `Authorization: Bearer <token>` when
\* the request has a non-empty userId and resolveToken gave a non-empty
\* token, and has no Authorization header otherwise. Without a userId, or
\* with an empty one, resolveToken is not called. When resolveToken gives an
\* empty token the fetch call is still made, and the invocation returns what
\* the response gives.
C27_BearerIffIdentityAndToken ==
  \A i \in Reqs :
    IsRequest(i) =>
      /\ ~HasIdentity(i) =>
           /\ auth[i] = "none"
           /\ call[i].token = Pending
           /\ pc[i] \in {"fetch", "parseError", "json", "done"}
      /\ auth[i] = "resolved" => Sent(i)
      /\ Sent(i) =>
           IF HasIdentity(i) /\ Truthy(call[i].token)
             THEN /\ "Authorization" \in DOMAIN FetchCall(i).headers
                  /\ FetchCall(i).headers["Authorization"] = bearer(call[i].token)
             ELSE "Authorization" \notin DOMAIN FetchCall(i).headers
      /\ (pc[i] = "done" /\ auth[i] = "resolved" /\ ~Truthy(call[i].token)) =>
           /\ result[i].kind = "returned"
           /\ (GotResponse(i) /\ resOk(ResponseOf(i))) => Outcome(i).error = Null

\* getAuthToken gave an empty token for a user: the request was sent without
\* the header and returned the body of its response
C27_Witness ==
  \E i \in Reqs :
    /\ RequestDone(i)
    /\ HasIdentity(i)
    /\ Truthy(client.config.getAuthToken)
    /\ call[i].token = S("")
    /\ Sent(i)
    /\ "Authorization" \notin DOMAIN FetchCall(i).headers
    /\ result[i].kind = "returned"
    /\ Populated(Outcome(i).data)

----------------------------------------------------------------------------
\* Properties of the converters (under SpecConvert)

\* C21: toTaskError returns a TaskError as it is, the same object, and makes
\* of every other value a TaskDatabaseError with code TASK_DATABASE_ERROR and
\* statusCode 500; so what it returns is a TaskError, and toTaskError of it
\* is that same object again.
C21_ToTaskErrorTotal ==
  (conv.fn = "toTaskError") =>
    /\ conv.out.kind = "returned"
    /\ isTaskError(conv.out.value)
    /\ isTaskError(conv.arg) => conv.out.value = conv.arg
    /\ ~isTaskError(conv.arg) =>
         /\ conv.out.value.inst = "TaskDatabaseError"
         /\ conv.out.value.ref = FirstRef
         /\ Get(conv.out.value, "code") = S("TASK_DATABASE_ERROR")
         /\ Get(conv.out.value, "statusCode") = N(500)
    /\ conv.again # Pending => conv.again = conv.out

\* The fields of a task's execution state
ExecutionFields == {"execution", "api_messages", "task_messages", "tool_results"}

\* No execution field in an API response, nor in its progress, config and
\* metadata
HidesExecution(response) ==
  /\ DOMAIN response \cap ExecutionFields = {}
  /\ DOMAIN response.progress \cap ExecutionFields = {}
  /\ DOMAIN response.config \cap ExecutionFields = {}
  /\ response.metadata # Undefined => DOMAIN response.metadata \cap ExecutionFields = {}

\* The two tasks are the same but for their execution field
SameButExecution(t1, t2) == [t1 EXCEPT !.execution = t2.execution] = t2

\* C28: toTaskApiResponse never exposes execution state. Its result has no
\* execution, api_messages, task_messages or tool_results field, and two
\* tasks that differ only in execution give equal responses, through
\* toTaskListApiResponse as well.
C28_ExecutionHidden ==
  /\ conv.fn = "toTaskApiResponse" =>
       /\ HidesExecution(conv.out)
       /\ \A other \in Tasks :
            SameButExecution(conv.arg, other) => toTaskApiResponse(other) = conv.out
  /\ conv.fn = "toTaskListApiResponse" =>
       /\ conv.out.total = Len(conv.arg)
       /\ Len(conv.out.tasks) = Len(conv.arg)
       /\ \A k \in 1..Len(conv.out.tasks) : HidesExecution(conv.out.tasks[k])
       /\ SameButExecution(conv.arg[1], conv.arg[2]) => conv.out.tasks[1] = conv.out.tasks[2]

\* A list of two tasks that differ in their execution state, and in nothing
\* else, was transformed: the two responses are equal
C28_Witness ==
  /\ conv.fn = "toTaskListApiResponse"
  /\ conv.arg[1] # conv.arg[2]
  /\ SameButExecution(conv.arg[1], conv.arg[2])
  /\ conv.arg[1].execution.api_messages # <<>>
  /\ conv.out.tasks[1] = conv.out.tasks[2]
  /\ HidesExecution(conv.out.tasks[1])

----------------------------------------------------------------------------
\* Properties of TaskDatabaseService (under SpecProgress)

\* What an operation touches: a milestone, the items of a milestone with it
\* when the milestone is removed, or one item
Touches(o) ==
  CASE o.name = "updateMilestone" -> {<<"milestone", o.milestoneId>>}
    [] o.name = "removeMilestone" ->
         {<<"milestone", o.milestoneId>>} \cup
         {<<"item", o.milestoneId, i>> : i \in {"i1", "i2", "i3", "i8", "i9"}}
    [] o.name = "createTaskItem" -> {<<"item", o.milestoneId, o.taskItem.id>>}
    [] OTHER -> {<<"item", o.milestoneId, o.taskItemId>>}

\* The stored task after the operation has run alone on doc
Alone(o, doc) ==
  LET fields == Fields(o, getTask(doc))
  IN  IF fields.kind = "raised" THEN doc ELSE update(doc, fields.value)

\* C29: concurrent progress mutations on one task lose no update: when two
\* of the read-modify-write operations that touch different milestones or
\* items have both returned, the stored task is what the two give when run
\* one after the other.
C29_NoLostUpdate ==
  ( /\ \A c \in Callers : worker[c].pc = "done" /\ worker[c].result.kind = "returned"
    /\ Touches(worker["A"].operation) \cap Touches(worker["B"].operation) = {} )
  => LET oA == worker["A"].operation
         oB == worker["B"].operation
         base == worker["A"].base
     IN  store \in {Alone(oB, Alone(oA, base)), Alone(oA, Alone(oB, base))}

----------------------------------------------------------------------------
\* Properties of FirebaseClient (under SpecFirebase)

\* C30: FirebaseClient keeps app and db consistent: app and db are both set
\* or both null in every state, isConnected() is true after every connect
\* that returned and false after every disconnect that returned, and a data
\* operation delegates to TaskDatabaseService only on a connected client.
C30_AppDbConsistent ==
  /\ (fbClient.app = Null) <=> (fbClient.db = Null)
  /\ (fbCall.method = "connect" /\ fbCall.result.kind = "returned")
       => isConnected(fbClient)
  /\ (fbCall.method = "disconnect" /\ fbCall.result.kind = "returned")
       => ~isConnected(fbClient)
  /\ (fbCall.method = "getTask" /\ fbCall.delegated) => fbCall.connected

====
